---- MODULE Spec2Model ----
(***************************************************************************)
(* State-machine model of the metrics aggregation of csv_agent:            *)
(*   src/pg_aggregate_node.py         aggregate, _detect_impact_column     *)
(*   src/mockup/pg_aggregate_node.py  aggregate (fixed kpmgtotalimpact)    *)
(*   src/prompt_example.py            compute_aggregates, detect_impact_key*)
(*   src/pg_summary_agent.py          Summariser.run                       *)
(*   src/mockup/pg_summary_agent.py   Summariser.run (defaults filled in)  *)
(*   src/pg_articles_util.py          import_csv, generate_embeddings,     *)
(*                                    similar                              *)
(*   src/pg_ingest_node.py            ingest_csv                           *)
(*   src/mockup/pg_ingest_node.py     ingest_csv (no per-row handler)      *)
(*   src/pg_sql_agent_graph.py        write_query .. generate_answer       *)
(*   src/pg_graph.py                  parse_period, summarise, build_graph *)
(*   src/mockup/pg_graph.py           summarise, build_graph               *)
(*                                                                         *)
(* The database is the pair (cols, articles): the lower-cased column names *)
(* of the articles table and its rows.  A call is one run of one of the    *)
(* three functions (callee) over that table.  The queries that raise in a  *)
(* run are the set faulty (the per-candidate count queries of the detection  *)
(* included); every query is issued at most once, so the set decides the   *)
(* whole run.  Optional values (SQL NULL, Python None) are *)
(* sequences of length 0 or 1.  Impact values are fixed-point numbers in   *)
(* tenths (Scale).  A call of Summariser.run takes the mapping aggregates   *)
(* and hands prompt, the rendered mapping, to the prompt template.         *)
(***************************************************************************)
EXTENDS Integers, Sequences, FiniteSets, TLC

VARIABLES cols, articles, psycopg2, faulty, callee, pc, k,
          state, state_in, conn, results, impact_col, queries, ret,
          aggregates, prompt,
          comments, comments_in, batch_size, limit, ollama, called, remaining, updated,
          batch, fetched, article_id, emb_res, query_vec,
          steps, user_approval, cancelled,
          period,
          csv_file, stored, stored_in, last_csv, broken, db_calls, calls,
          graph, node, started, done

\* The variables of generate_embeddings and similar.
embedVars == <<comments, comments_in, batch_size, limit, ollama, called, remaining, updated,
               batch, fetched, article_id, emb_res, query_vec>>

\* The variables of the script pg_sql_agent_graph.
agentVars == <<steps, user_approval, cancelled>>

\* The argument of parse_period.
periodVars == <<period>>

\* The variables of import_csv and of the two ingest_csv nodes.
importVars == <<csv_file, stored, stored_in, last_csv, broken, db_calls, calls>>

\* The variables of a run of the compiled graph.
graphVars == <<graph, node, started, done>>

\* The variables no function of the aggregation or of the summary reads.
others == <<embedVars, agentVars, periodVars, importVars, graphVars>>

\* The variables only the aggregation and the summary use.
aggRest == <<cols, articles, psycopg2, faulty, k, conn, results,
             impact_col, queries, aggregates, prompt>>

\* The same with the state the call was given.
aggLocals == <<aggRest, state_in>>

\* What generate_embeddings and similar leave alone, besides callee, pc,
\* state and ret.
notEmbed == <<aggLocals, agentVars, periodVars, importVars, graphVars>>

\* What pg_sql_agent_graph leaves alone.
notAgent == <<aggLocals, embedVars, periodVars, importVars, graphVars>>

\* What parse_period leaves alone.
notPeriod == <<aggLocals, embedVars, agentVars, importVars, graphVars>>

\* What import_csv and ingest_csv leave alone.
notImport == <<aggLocals, embedVars, agentVars, periodVars, graphVars>>

\* What the summarise nodes and the steps of the graph leave alone.
notGraph == <<aggRest, embedVars, agentVars, periodVars, importVars>>

vars == <<cols, articles, psycopg2, faulty, callee, pc, k,
          state, state_in, conn, results, impact_col, queries, ret,
          aggregates, prompt, others>>

----------------------------------------------------------------------------
(* Optional values and dictionaries                                        *)

None == <<>>

Some(v) == <<v>>

Get(o) == o[1]

EmptyDict == [x \in {} |-> None]

\* d[key] = v of a Python dict: the key is added or overwritten.
Put(d, key, v) == [x \in DOMAIN d \cup {key} |-> IF x = key THEN v ELSE d[x]]

\* d.get(key) or default
GetOr(d, key, default) == IF key \in DOMAIN d THEN d[key] ELSE default

\* state.setdefault("errors", []).append(msg)
AppendError(s, msg) == Put(s, "errors", Append(GetOr(s, "errors", <<>>), msg))

RECURSIVE SumOver(_, _)
SumOver(S, f) ==
    IF S = {} THEN 0
    ELSE LET x == CHOOSE y \in S : TRUE IN f[x] + SumOver(S \ {x}, f)

RECURSIVE Gcd(_, _)
Gcd(a, b) == IF b = 0 THEN a ELSE Gcd(b, a % b)

\* The quotient num/den of a float division, kept exact as a reduced fraction.
Fraction(num, den) ==
    LET g == Gcd(num, den) IN [num |-> num \div g, den |-> den \div g]

EndsWith(s, suffix) ==
    /\ Len(s) >= Len(suffix)
    /\ SubSeq(s, Len(s) - Len(suffix) + 1, Len(s)) = suffix

----------------------------------------------------------------------------
(* Bounds and input domains                                                *)

Scale == 10

MaxRows == 2

MaxDetectRows == 2

MaxHistRows == 4

MaxMonthRows == 3

MaxMetricRows == 3

MaxReuseRows == 1

MaxTableRows == 1

MaxEmbedRows == 2

MaxBatch == 2

MaxLimit == 2

MaxCsvRows == 2

MaxImports == 2

IMPACT_COLUMNS_PRIORITY ==
    <<"kpmgtotalimpact", "pwctotalimpact", "deloittetotalimpact", "eytotalimpact">>

Known == {IMPACT_COLUMNS_PRIORITY[n] : n \in DOMAIN IMPACT_COLUMNS_PRIORITY}

PriorityIndex(c) == CHOOSE n \in DOMAIN IMPACT_COLUMNS_PRIORITY : IMPACT_COLUMNS_PRIORITY[n] = c

CANONICAL_IMPACT_NAMES ==
    [c \in Known |->
        CASE c = "kpmgtotalimpact" -> "KPMGTotalImpact"
          [] c = "pwctotalimpact" -> "PwCTotalImpact"
          [] c = "deloittetotalimpact" -> "DeloitteTotalImpact"
          [] c = "eytotalimpact" -> "EYTotalImpact"]

\* Columns every articles table has besides the impact columns.
BaseCols == {"articleid", "month", "year", "issue", "spokespersonname", "impact"}

ImpactCols(cs) == {c \in cs : EndsWith(c, "totalimpact")}

----------------------------------------------------------------------------
(* The articles table and the SQL the functions send                       *)

\* A cell of an impact column: NULL, a number, or (in a text-typed column
\* discovered dynamically) a text value.
Text(s) == <<s, "text">>

IsNull(cell) == Len(cell) = 0

IsText(cell) == Len(cell) = 2

\* TRIM(col::text) <> '' : a number never prints as blank, a text may.
IsBlank(cell) == IsText(cell) /\ cell[1] \in {"", " "}

Rows(t) == DOMAIN t

\* A column some cell of which is text is text-typed: AVG(col), col < 1 and
\* float(col) raise on it.
IsTextCol(t, col) == \E i \in Rows(t) : IsText(t[i].impact[col])

\* SELECT lower(column_name) FROM information_schema.columns
\*   WHERE table_name = 'articles'
SqlColumns(cs) == cs

\* SELECT COUNT(*) FROM articles WHERE col IS NOT NULL AND TRIM(col::text) <> ''
SqlCountNonBlank(t, col) ==
    Cardinality({i \in Rows(t) : ~IsNull(t[i].impact[col]) /\ ~IsBlank(t[i].impact[col])})

\* SELECT COUNT(*) FROM articles
SqlTotal(t) == Len(t)

\* Mutant of Named: rows with an empty name count as named.
Named_WithEmpty(t) == {i \in Rows(t) : t[i].sp # None}

\* WHERE spokespersonname IS NOT NULL AND spokespersonname <> ''
Named(t) == {i \in Rows(t) : t[i].sp # None /\ t[i].sp # Some("")}

SpCount(t, name) == Cardinality({i \in Named(t) : t[i].sp = Some(name)})

\* SELECT spokespersonname, COUNT(*) AS c FROM articles
\*   WHERE spokespersonname IS NOT NULL AND spokespersonname <> ''
\*   GROUP BY spokespersonname ORDER BY c DESC LIMIT 1
\* The rows the database may return first: any group of maximal count.
SqlTopSpokesperson(t) ==
    LET names == {Get(t[i].sp) : i \in Named(t)}
    IN  {<<n, SpCount(t, n)>> : n \in {m \in names : \A o \in names : SpCount(t, o) <= SpCount(t, m)}}

\* CASE month WHEN 'Jan' THEN 1 ... WHEN 'Dec' THEN 12 ELSE 13 END
MonthIndex(month) ==
    IF month = None THEN 13
    ELSE CASE Get(month) = "Jan" -> 1  [] Get(month) = "Feb" -> 2
           [] Get(month) = "Mar" -> 3  [] Get(month) = "Apr" -> 4
           [] Get(month) = "May" -> 5  [] Get(month) = "Jun" -> 6
           [] Get(month) = "Jul" -> 7  [] Get(month) = "Aug" -> 8
           [] Get(month) = "Sep" -> 9  [] Get(month) = "Oct" -> 10
           [] Get(month) = "Nov" -> 11 [] Get(month) = "Dec" -> 12
           [] OTHER -> 13

\* Mutant of MonthlyBefore: the month index is the first sort key, the year
\* the second.
MonthlyBefore_MonthFirst(a, b) ==
    \/ MonthIndex(a.month) < MonthIndex(b.month)
    \/ /\ MonthIndex(a.month) = MonthIndex(b.month)
       /\ a.year # None /\ b.year # None /\ Get(a.year) < Get(b.year)

\* ORDER BY year (ascending, NULLS LAST), then the month index.
MonthlyBefore(a, b) ==
    \/ a.year # None /\ b.year = None
    \/ a.year # None /\ b.year # None /\ Get(a.year) < Get(b.year)
    \/ a.year = b.year /\ MonthIndex(a.month) < MonthIndex(b.month)

MonthlyGroups(t) ==
    {[month |-> t[i].month, year |-> t[i].year,
      count |-> Cardinality({j \in Rows(t) : t[j].month = t[i].month /\ t[j].year = t[i].year})]
        : i \in Rows(t)}

\* SELECT month, year, COUNT(*) FROM articles GROUP BY month, year
\*   ORDER BY year, MIN(CASE month ... END)
\* Every order of the groups the ORDER BY allows (groups equal on both keys
\* come in any order).
SqlMonthlyCounts(t) ==
    LET G == MonthlyGroups(t)
        n == Cardinality(G)
    IN  {s \in [1..n -> G] :
            /\ \A a, b \in 1..n : a # b => s[a] # s[b]
            /\ \A a, b \in 1..n : a < b => ~MonthlyBefore(s[b], s[a])}

NonNull(t, col) == {i \in Rows(t) : ~IsNull(t[i].impact[col])}

\* Mutant of SqlAvg: the divisor is the number of all rows, null ones included.
SqlAvg_AllRows(t, col) ==
    IF NonNull(t, col) = {} THEN None
    ELSE Some(Fraction(SumOver(NonNull(t, col), [i \in Rows(t) |-> Get(t[i].impact[col])]),
                       Len(t) * Scale))

\* SELECT AVG(col) FROM articles WHERE col IS NOT NULL
SqlAvg(t, col) ==
    IF NonNull(t, col) = {} THEN None
    ELSE Some(Fraction(SumOver(NonNull(t, col), [i \in Rows(t) |-> Get(t[i].impact[col])]),
                       Cardinality(NonNull(t, col)) * Scale))

MaxRowOf(t, i, col) ==
    [articleid |-> i, impact |-> t[i].impact[col], issue |-> t[i].issue,
     spokespersonname |-> t[i].sp]

\* SELECT articleid, col, issue, spokespersonname FROM articles
\*   WHERE col IS NOT NULL ORDER BY col DESC NULLS LAST LIMIT 1
\* The rows the database may return: any row holding the maximum.
SqlMaxRow(t, col) ==
    {MaxRowOf(t, i, col) : i \in {m \in NonNull(t, col) :
        \A o \in NonNull(t, col) : Get(t[o].impact[col]) <= Get(t[m].impact[col])}}

\* Mutant of SqlBucket: the comparisons are <= instead of <.
SqlBucket_Inclusive(cell) ==
    IF IsNull(cell) THEN "null"
    ELSE IF Get(cell) <= 1 * Scale THEN "0_1"
    ELSE IF Get(cell) <= 3 * Scale THEN "1_3"
    ELSE IF Get(cell) <= 6 * Scale THEN "3_6"
    ELSE "6_10"

\* CASE WHEN col IS NULL THEN 'null' WHEN col < 1 THEN '0_1' WHEN col < 3 THEN '1_3'
\*      WHEN col < 6 THEN '3_6' ELSE '6_10' END
SqlBucket(cell) ==
    IF IsNull(cell) THEN "null"
    ELSE IF Get(cell) < 1 * Scale THEN "0_1"
    ELSE IF Get(cell) < 3 * Scale THEN "1_3"
    ELSE IF Get(cell) < 6 * Scale THEN "3_6"
    ELSE "6_10"

\* SELECT bucket, COUNT(*) FROM (SELECT CASE ... END AS bucket FROM articles) t
\*   GROUP BY bucket : one (bucket, count) row per bucket that has rows.
SqlBuckets(t, col) ==
    {<<SqlBucket(t[i].impact[col]),
       Cardinality({j \in Rows(t) : SqlBucket(t[j].impact[col]) = SqlBucket(t[i].impact[col])})>>
        : i \in Rows(t)}

----------------------------------------------------------------------------
(* src/pg_aggregate_node.py : _detect_impact_column                        *)

\* The name under which a query appears in faulty and in queries.
CountQuery(col) == "count " \o col

InCols(cs, c) == c \in cs

\* candidates = [c for c in IMPACT_COLUMNS_PRIORITY if c in cols]
KnownCandidates(cs) ==
    LET Present(c) == InCols(cs, c) IN SelectSeq(IMPACT_COLUMNS_PRIORITY, Present)

\* for c in cols: cols is a Python set, so the columns found by their suffix
\* are appended in an order the program does not control.
DynamicOrders(cs) ==
    LET D == ImpactCols(cs) \ Known
        n == Cardinality(D)
    IN  {s \in [1..n -> D] : \A a, b \in 1..n : a # b => s[a] # s[b]}

\* cnt of one candidate: the count query, or 0 when it raises.
CandidateCount(t, bad, col) ==
    IF CountQuery(col) \in bad THEN 0 ELSE SqlCountNonBlank(t, col)

\* key=lambda x: (-x[1], IMPACT_COLUMNS_PRIORITY.index(x[0]) if ... else 999)
SortRank(col) == IF col \in Known THEN PriorityIndex(col) - 1 ELSE 999

\* Mutant of SortsBefore: the sort key is the priority rank alone.
SortsBefore_RankOnly(a, b) == SortRank(a.col) < SortRank(b.col)

SortsBefore(a, b) ==
    \/ a.cnt > b.cnt
    \/ a.cnt = b.cnt /\ SortRank(a.col) < SortRank(b.col)

\* Mutant of NonZero: no fallback to all the counts when every one is zero.
NonZero_NoFallback(counts) ==
    LET Positive(x) == x.cnt > 0 IN SelectSeq(counts, Positive)

\* non_zero = [c for c in counts if c[1] > 0] or counts
NonZero(counts) ==
    LET Positive(x) == x.cnt > 0
    IN  IF SelectSeq(counts, Positive) # <<>> THEN SelectSeq(counts, Positive) ELSE counts

\* list.sort is stable: the head of the sorted list is the earliest entry no
\* other entry sorts before.
SortedHead(seq) ==
    LET best == {i \in DOMAIN seq : \A j \in DOMAIN seq : ~SortsBefore(seq[j], seq[i])}
    IN  seq[CHOOSE i \in best : \A j \in best : i <= j]

\* The value _detect_impact_column returns once the column query has
\* succeeded; order is the iteration order of the dynamically found columns.
DetectFrom(candidates, t, bad) ==
    IF candidates = <<>> THEN None
    ELSE LET counts == [n \in DOMAIN candidates |->
                           [col |-> candidates[n], cnt |-> CandidateCount(t, bad, candidates[n])]]
         IN  IF NonZero(counts) = <<>> THEN None ELSE Some(SortedHead(NonZero(counts)).col)

Candidates(cs, order) == KnownCandidates(SqlColumns(cs)) \o order

\* The queries a call of _detect_impact_column issues, in order.
DetectQueries(candidates) ==
    <<"columns">> \o [n \in DOMAIN candidates |-> CountQuery(candidates[n])]

----------------------------------------------------------------------------
(* src/pg_aggregate_node.py : aggregate                                    *)
\* Mutant of GENERIC_QUERIES: the spokesperson query comes first.
GENERIC_QUERIES_Swapped == <<"top_spokesperson", "total_articles", "monthly_counts">>

GENERIC_QUERIES == <<"total_articles", "top_spokesperson", "monthly_counts">>

ErrorOf(key) == "aggregate " \o key

\* results after the body of the try of one generic query that did not raise.
GenericResults(res, key, t) ==
    CASE key = "total_articles" -> {Put(res, key, SqlTotal(t))}
      [] key = "top_spokesperson" ->
            IF SqlTopSpokesperson(t) = {} THEN {res}
            ELSE {Put(res, key, [spokespersonname |-> row[1], article_count |-> row[2]])
                    : row \in SqlTopSpokesperson(t)}
      [] key = "monthly_counts" -> {Put(res, key, rows) : rows \in SqlMonthlyCounts(t)}

\* An impact query raises when the database fails it or the column is text.
ImpactQueryFails(q, bad, t, col) == q \in bad \/ IsTextCol(t, col)

Pretty(col) == IF col \in Known THEN CANONICAL_IMPACT_NAMES[col] ELSE col

\* lines 76-85: driver check, connect, cursor.
AggStart ==
    /\ callee = "aggregate" /\ pc = "start"
    /\ IF ~psycopg2
         THEN /\ state' = AppendError(state, "psycopg2 not installed")
              /\ pc' = "returned"
              /\ UNCHANGED <<conn, results>>
         ELSE IF "connect" \in faulty
         THEN /\ state' = AppendError(state, "aggregate connect")
              /\ pc' = "returned"
              /\ UNCHANGED <<conn, results>>
         ELSE /\ conn' = "open"
              /\ results' = EmptyDict
              /\ pc' = "generic"
              /\ UNCHANGED state
    /\ UNCHANGED <<others, aggregates, prompt, cols, articles, psycopg2, faulty, callee, k, state_in, impact_col, queries, ret>>

\* Mutant of AggGeneric: the first failing generic query ends the loop.
AggGeneric_Abort ==
    /\ callee = "aggregate" /\ pc = "generic"
    /\ LET key == GENERIC_QUERIES[k] IN
        /\ queries' = Append(queries, key)
        /\ IF key \in faulty
             THEN /\ state' = AppendError(state, ErrorOf(key))
                  /\ UNCHANGED results
                  /\ k' = 1 /\ pc' = "detect"
             ELSE /\ results' \in GenericResults(results, key, articles)
                  /\ UNCHANGED state
                  /\ IF k < Len(GENERIC_QUERIES)
                       THEN k' = k + 1 /\ pc' = "generic"
                       ELSE k' = 1 /\ pc' = "detect"
    /\ UNCHANGED <<others, aggregates, prompt, cols, articles, psycopg2, faulty, callee, state_in, conn, impact_col, ret>>

\* lines 88-100: one iteration of the loop over GENERIC_QUERIES.
AggGeneric ==
    /\ callee = "aggregate" /\ pc = "generic"
    /\ LET key == GENERIC_QUERIES[k] IN
        /\ queries' = Append(queries, key)
        /\ IF key \in faulty
             THEN /\ state' = AppendError(state, ErrorOf(key))
                  /\ UNCHANGED results
             ELSE /\ results' \in GenericResults(results, key, articles)
                  /\ UNCHANGED state
    /\ IF k < Len(GENERIC_QUERIES)
         THEN k' = k + 1 /\ pc' = "generic"
         ELSE k' = 1 /\ pc' = "detect"
    /\ UNCHANGED <<others, aggregates, prompt, cols, articles, psycopg2, faulty, callee, state_in, conn, impact_col, ret>>

\* Mutant of AggDetect: a failed detection is swallowed without a diagnostic.
AggDetect_Silent ==
    /\ callee = "aggregate" /\ pc = "detect"
    /\ IF "columns" \in faulty
         THEN /\ impact_col' = None
              /\ queries' = Append(queries, "columns")
              /\ UNCHANGED state
         ELSE \E order \in DynamicOrders(SqlColumns(cols)) :
              /\ impact_col' = DetectFrom(Candidates(cols, order), articles, faulty)
              /\ queries' = queries \o DetectQueries(Candidates(cols, order))
              /\ UNCHANGED state
    /\ pc' = "impact"
    /\ UNCHANGED <<others, aggregates, prompt, cols, articles, psycopg2, faulty, callee, k, state_in, conn, results, ret>>

\* Mutant of AggDetect: a failed detection falls back to a column of the
\* table that ends with totalimpact.
AggDetect_Fallback ==
    /\ callee = "aggregate" /\ pc = "detect"
    /\ IF "columns" \in faulty
         THEN /\ impact_col' = IF ImpactCols(cols) = {} THEN None
                                ELSE Some(CHOOSE c \in ImpactCols(cols) : TRUE)
              /\ state' = AppendError(state, "detect_impact")
              /\ queries' = Append(queries, "columns")
         ELSE \E order \in DynamicOrders(SqlColumns(cols)) :
              /\ impact_col' = DetectFrom(Candidates(cols, order), articles, faulty)
              /\ queries' = queries \o DetectQueries(Candidates(cols, order))
              /\ UNCHANGED state
    /\ pc' = "impact"
    /\ UNCHANGED <<others, aggregates, prompt, cols, articles, psycopg2, faulty, callee, k, state_in, conn, results, ret>>

\* lines 103-107: the call of _detect_impact_column and its except.
AggDetect ==
    /\ callee = "aggregate" /\ pc = "detect"
    /\ IF "columns" \in faulty
         THEN /\ impact_col' = None
              /\ state' = AppendError(state, "detect_impact")
              /\ queries' = Append(queries, "columns")
         ELSE \E order \in DynamicOrders(SqlColumns(cols)) :
              /\ impact_col' = DetectFrom(Candidates(cols, order), articles, faulty)
              /\ queries' = queries \o DetectQueries(Candidates(cols, order))
              /\ UNCHANGED state
    /\ pc' = "impact"
    /\ UNCHANGED <<others, aggregates, prompt, cols, articles, psycopg2, faulty, callee, k, state_in, conn, results, ret>>

\* results after the try of the average (lines 113-118) that did not raise.
AvgResults(res, t, col) ==
    LET withAvg == Put(res, "avg_impact", SqlAvg(t, col))
    IN  IF col = "kpmgtotalimpact" THEN Put(withAvg, "avg_kpmg_impact", withAvg["avg_impact"])
        ELSE withAvg

\* Mutant of AggAvg: the else branch reports the missing column but leaves
\* avg_impact unset.
AggAvg_NoAvg ==
    /\ callee = "aggregate" /\ pc = "impact"
    /\ IF impact_col # None
         THEN LET col == Get(impact_col)
                  named == Put(results, "company_impact_field", Some(Pretty(col)))
              IN  /\ queries' = Append(queries, "avg_impact")
                  /\ IF ImpactQueryFails("avg_impact", faulty, articles, col)
                       THEN /\ state' = AppendError(state, ErrorOf("avg_impact"))
                            /\ results' = named
                       ELSE /\ results' = AvgResults(named, articles, col)
                            /\ UNCHANGED state
                  /\ pc' = "max"
         ELSE /\ results' = Put(results, "company_impact_field", None)
              /\ state' = AppendError(state, "no impact column detected")
              /\ pc' = "close"
              /\ UNCHANGED queries
    /\ UNCHANGED <<others, aggregates, prompt, cols, articles, psycopg2, faulty, callee, k, state_in, conn, impact_col, ret>>

\* lines 109-120 and 146-149: the branch on impact_col; with a column, the
\* field name and the average; without, the explicit none values.
AggAvg ==
    /\ callee = "aggregate" /\ pc = "impact"
    /\ IF impact_col # None
         THEN LET col == Get(impact_col)
                  named == Put(results, "company_impact_field", Some(Pretty(col)))
              IN  /\ queries' = Append(queries, "avg_impact")
                  /\ IF ImpactQueryFails("avg_impact", faulty, articles, col)
                       THEN /\ state' = AppendError(state, ErrorOf("avg_impact"))
                            /\ results' = named
                       ELSE /\ results' = AvgResults(named, articles, col)
                            /\ UNCHANGED state
                  /\ pc' = "max"
         ELSE /\ results' = Put(Put(results, "company_impact_field", None), "avg_impact", None)
              /\ state' = AppendError(state, "no impact column detected")
              /\ pc' = "close"
              /\ UNCHANGED queries
    /\ UNCHANGED <<others, aggregates, prompt, cols, articles, psycopg2, faulty, callee, k, state_in, conn, impact_col, ret>>

\* results after the try of the maximum row (lines 122-127) that did not raise.
MaxResults(res, t, col) ==
    IF SqlMaxRow(t, col) = {} THEN {res}
    ELSE {Put(res, "max_impact", row) : row \in SqlMaxRow(t, col)}

\* Mutant of AggMax: a failed maximum query is swallowed without a diagnostic.
AggMax_Silent ==
    /\ callee = "aggregate" /\ pc = "max"
    /\ queries' = Append(queries, "max_impact")
    /\ IF ImpactQueryFails("max_impact", faulty, articles, Get(impact_col))
         THEN UNCHANGED <<state, results>>
         ELSE /\ results' \in MaxResults(results, articles, Get(impact_col))
              /\ UNCHANGED state
    /\ pc' = "dist"
    /\ UNCHANGED <<others, aggregates, prompt, cols, articles, psycopg2, faulty, callee, k, state_in, conn, impact_col, ret>>

\* lines 121-129
AggMax ==
    /\ callee = "aggregate" /\ pc = "max"
    /\ queries' = Append(queries, "max_impact")
    /\ IF ImpactQueryFails("max_impact", faulty, articles, Get(impact_col))
         THEN /\ state' = AppendError(state, ErrorOf("max_impact"))
              /\ UNCHANGED results
         ELSE /\ results' \in MaxResults(results, articles, Get(impact_col))
              /\ UNCHANGED state
    /\ pc' = "dist"
    /\ UNCHANGED <<others, aggregates, prompt, cols, articles, psycopg2, faulty, callee, k, state_in, conn, impact_col, ret>>

\* {b: int(c) for b, c in rows if b != 'null'}
Distribution(rows) ==
    [b \in {r[1] : r \in {x \in rows : x[1] # "null"}} |->
        (CHOOSE r \in rows : r[1] = b)[2]]

\* lines 130-145
AggDist ==
    /\ callee = "aggregate" /\ pc = "dist"
    /\ queries' = Append(queries, "impact_distribution")
    /\ IF ImpactQueryFails("impact_distribution", faulty, articles, Get(impact_col))
         THEN /\ state' = AppendError(state, ErrorOf("impact_distribution"))
              /\ UNCHANGED results
         ELSE /\ results' = Put(results, "impact_distribution",
                                Distribution(SqlBuckets(articles, Get(impact_col))))
              /\ UNCHANGED state
    /\ pc' = "close"
    /\ UNCHANGED <<others, aggregates, prompt, cols, articles, psycopg2, faulty, callee, k, state_in, conn, impact_col, ret>>

\* Mutant of AggClose: when the last generic query has failed the connection
\* is left open.
AggClose_Leak ==
    /\ callee = "aggregate" /\ pc = "close"
    /\ conn' = IF "monthly_counts" \in faulty THEN "open" ELSE "closed"
    /\ state' = Put(state, "aggregates", results)
    /\ pc' = "returned"
    /\ UNCHANGED <<others, aggregates, prompt, cols, articles, psycopg2, faulty, callee, k, state_in, results, impact_col, queries, ret>>

\* lines 151-153: cur.close(); conn.close(); state["aggregates"] = results
AggClose ==
    /\ callee = "aggregate" /\ pc = "close"
    /\ conn' = "closed"
    /\ state' = Put(state, "aggregates", results)
    /\ pc' = "returned"
    /\ UNCHANGED <<others, aggregates, prompt, cols, articles, psycopg2, faulty, callee, k, state_in, results, impact_col, queries, ret>>

----------------------------------------------------------------------------
(* src/mockup/pg_aggregate_node.py : aggregate                             *)

BASE_QUERIES ==
    <<"total_articles", "avg_kpmg_impact", "max_impact_row", "top_spokesperson",
      "impact_buckets", "monthly_counts">>

\* os.getenv("TEST_TABLE"): unset in the runs modelled.
TEST_TABLE == None

\* state.get("table") or os.getenv("TEST_TABLE") or "articles_test"
TableName(s) ==
    IF GetOr(s, "table", None) \notin {None, Some("")} THEN Get(s["table"])
    ELSE IF TEST_TABLE \notin {None, Some("")} THEN Get(TEST_TABLE)
    ELSE "articles_test"

WordChars ==
    {"a","b","c","d","e","f","g","h","i","j","k","l","m","n","o","p","q","r","s","t","u",
     "v","w","x","y","z","A","B","C","D","E","F","G","H","I","J","K","L","M","N","O","P",
     "Q","R","S","T","U","V","W","X","Y","Z","0","1","2","3","4","5","6","7","8","9","_"}

\* Mutant of ValidTableName: re.search instead of re.fullmatch, one matching
\* character is enough.
ValidTableName_Search(name) ==
    \E n \in 1..Len(name) : SubSeq(name, n, n) \in WordChars

\* re.fullmatch(r"[A-Za-z0-9_]+", table)
ValidTableName(name) ==
    /\ Len(name) > 0
    /\ \A n \in 1..Len(name) : SubSeq(name, n, n) \in WordChars

\* The three queries of BASE_QUERIES that name kpmgtotalimpact raise on a
\* table without that column.
MockQueryFails(key, bad, cs) ==
    \/ key \in bad
    \/ key \in {"avg_kpmg_impact", "max_impact_row", "impact_buckets"}
         /\ "kpmgtotalimpact" \notin cs

\* SELECT articleid, kpmgtotalimpact, issue, spokespersonname FROM {table}
\*   ORDER BY kpmgtotalimpact DESC NULLS LAST LIMIT 1     (no WHERE)
SqlMaxRowNullsLast(t, col) ==
    IF NonNull(t, col) # {} THEN SqlMaxRow(t, col)
    ELSE {MaxRowOf(t, i, col) : i \in Rows(t)}

MockMaxRecord(row) ==
    [articleid |-> row.articleid, kpmgtotalimpact |-> row.impact, issue |-> row.issue,
     spokespersonname |-> row.spokespersonname]

\* {r[0]: int(r[1]) for r in rows}
MockDistribution(rows) ==
    [b \in {r[1] : r \in rows} |-> (CHOOSE r \in rows : r[1] = b)[2]]

\* results after the body of the try of one query of the mockup (lines 54-71).
MockResults(res, key, t) ==
    CASE key = "total_articles" -> {Put(res, key, SqlTotal(t))}
      [] key = "avg_kpmg_impact" -> {Put(res, key, SqlAvg(t, "kpmgtotalimpact"))}
      [] key = "max_impact_row" ->
            IF SqlMaxRowNullsLast(t, "kpmgtotalimpact") = {} THEN {res}
            ELSE {Put(res, "max_impact", MockMaxRecord(row))
                    : row \in SqlMaxRowNullsLast(t, "kpmgtotalimpact")}
      [] key = "top_spokesperson" ->
            IF SqlTopSpokesperson(t) = {} THEN {res}
            ELSE {Put(res, key, [spokespersonname |-> row[1], article_count |-> row[2]])
                    : row \in SqlTopSpokesperson(t)}
      [] key = "impact_buckets" ->
            {Put(res, "impact_distribution", MockDistribution(SqlBuckets(t, "kpmgtotalimpact")))}
      [] key = "monthly_counts" -> {Put(res, key, rows) : rows \in SqlMonthlyCounts(t)}

\* lines 41-51: driver check, table name check, connect (outside any try).
MockStart ==
    /\ callee = "mockup_aggregate" /\ pc = "start"
    /\ IF ~psycopg2
         THEN /\ state' = AppendError(state, "psycopg2 not installed")
              /\ pc' = "returned"
              /\ UNCHANGED <<conn, results>>
         ELSE IF ~ValidTableName(TableName(state))
         THEN /\ state' = AppendError(state, "invalid table name")
              /\ pc' = "returned"
              /\ UNCHANGED <<conn, results>>
         ELSE IF "connect" \in faulty
         THEN /\ pc' = "raised"
              /\ UNCHANGED <<state, conn, results>>
         ELSE /\ conn' = "open"
              /\ results' = EmptyDict
              /\ pc' = "queries"
              /\ UNCHANGED state
    /\ UNCHANGED <<others, aggregates, prompt, cols, articles, psycopg2, faulty, callee, k, state_in, impact_col, queries, ret>>

\* Mutant of MockQuery: the failure of a query is not caught.
MockQuery_Raises ==
    /\ callee = "mockup_aggregate" /\ pc = "queries"
    /\ LET key == BASE_QUERIES[k] IN
        /\ queries' = Append(queries, key)
        /\ IF MockQueryFails(key, faulty, cols)
             THEN /\ pc' = "raised"
                  /\ UNCHANGED <<state, results, k>>
             ELSE /\ results' \in MockResults(results, key, articles)
                  /\ UNCHANGED state
                  /\ IF k < Len(BASE_QUERIES)
                       THEN k' = k + 1 /\ pc' = "queries"
                       ELSE k' = 1 /\ pc' = "close"
    /\ UNCHANGED <<others, aggregates, prompt, cols, articles, psycopg2, faulty, callee, state_in, conn, impact_col, ret>>

\* lines 52-73: one iteration of the loop over the queries.
MockQuery ==
    /\ callee = "mockup_aggregate" /\ pc = "queries"
    /\ LET key == BASE_QUERIES[k] IN
        /\ queries' = Append(queries, key)
        /\ IF MockQueryFails(key, faulty, cols)
             THEN /\ state' = AppendError(state, ErrorOf(key))
                  /\ UNCHANGED results
             ELSE /\ results' \in MockResults(results, key, articles)
                  /\ UNCHANGED state
    /\ IF k < Len(BASE_QUERIES)
         THEN k' = k + 1 /\ pc' = "queries"
         ELSE k' = 1 /\ pc' = "close"
    /\ UNCHANGED <<others, aggregates, prompt, cols, articles, psycopg2, faulty, callee, state_in, conn, impact_col, ret>>

\* lines 74-76
MockClose ==
    /\ callee = "mockup_aggregate" /\ pc = "close"
    /\ conn' = "closed"
    /\ state' = Put(state, "aggregates", results)
    /\ pc' = "returned"
    /\ UNCHANGED <<others, aggregates, prompt, cols, articles, psycopg2, faulty, callee, k, results, state_in, impact_col, queries, ret>>

----------------------------------------------------------------------------
(* src/prompt_example.py : detect_impact_key, compute_aggregates           *)

\* The key of a column in the article dictionaries of the JSON examples.
JsonKey(col) == Pretty(col)

\* isinstance(a.get(key), (int, float))
IsNumber(cell) == Len(cell) = 1

Numeric(t, col) == {i \in Rows(t) : IsNumber(t[i].impact[col])}

\* detect_impact_key: the first key of the priority list some article has a
\* number under; else a suffix-matching key with a number in the first
\* article that has one (in the order of that article's keys).
DetectImpactKeys(cs, t) ==
    LET hits == {n \in DOMAIN IMPACT_COLUMNS_PRIORITY :
                    /\ IMPACT_COLUMNS_PRIORITY[n] \in cs
                    /\ Numeric(t, IMPACT_COLUMNS_PRIORITY[n]) # {}}
        other == {i \in Rows(t) : \E c \in ImpactCols(cs) : IsNumber(t[i].impact[c])}
    IN  IF hits # {}
          THEN {Some(IMPACT_COLUMNS_PRIORITY[CHOOSE n \in hits : \A m \in hits : n <= m])}
        ELSE IF other # {}
          THEN LET first == CHOOSE i \in other : \A j \in other : i <= j
               IN  {Some(c) : c \in {d \in ImpactCols(cs) : IsNumber(t[first].impact[d])}}
        ELSE {None}

\* if val < 1 ... elif val < 3 ... elif val < 6 ... else
Bucket(val) ==
    IF val < 1 * Scale THEN "0_1"
    ELSE IF val < 3 * Scale THEN "1_3"
    ELSE IF val < 6 * Scale THEN "3_6"
    ELSE "6_10"

BucketLabels == {"0_1", "1_3", "3_6", "6_10"}

\* buckets after the loop over impacts (lines 44-49)
Buckets(t, rows, col) ==
    [b \in BucketLabels |-> Cardinality({i \in rows : Bucket(Get(t[i].impact[col])) = b})]

\* {k: v for k, v in buckets.items() if v > 0}
PositiveOnly(buckets) == [b \in {x \in DOMAIN buckets : buckets[x] > 0} |-> buckets[b]]

\* max(sp_counts.items(), key=lambda x: x[1]): the first name, in order of
\* first appearance, whose count is maximal.
TopSpokesperson(t) ==
    IF Named(t) = {} THEN None
    ELSE LET best == {i \in Named(t) : \A j \in Named(t) :
                         SpCount(t, Get(t[j].sp)) <= SpCount(t, Get(t[i].sp))}
             first == CHOOSE i \in best : \A j \in best : i <= j
         IN  Some([spokespersonname |-> Get(t[first].sp),
                   article_count |-> SpCount(t, Get(t[first].sp))])

\* max(..., key=lambda x: x.get(impact_key, 0)): the first article holding
\* the maximum.
MaxArticle(t, rows, col) ==
    LET best == {i \in rows : \A j \in rows : Get(t[j].impact[col]) <= Get(t[i].impact[col])}
        first == CHOOSE i \in best : \A j \in best : i <= j
    IN  [articleid |-> first, impact |-> Get(t[first].impact[col]), issue |-> t[first].issue,
         spokespersonname |-> IF t[first].sp = Some("") THEN None ELSE t[first].sp]

\* compute_aggregates(articles) for the impact key chosen by detect_impact_key
compute_aggregates(t, impact_key) ==
    LET rows == IF impact_key = None THEN {} ELSE Numeric(t, Get(impact_key))
    IN  [company_impact_field |-> IF impact_key = None THEN None ELSE Some(JsonKey(Get(impact_key))),
         total_articles |-> Len(t),
         avg_impact |->
            IF rows = {} THEN None
            ELSE Some(Fraction(SumOver(rows, [i \in Rows(t) |-> Get(t[i].impact[Get(impact_key)])]),
                               Cardinality(rows) * Scale)),
         max_impact |-> IF rows = {} THEN None ELSE Some(MaxArticle(t, rows, Get(impact_key))),
         top_spokesperson |-> TopSpokesperson(t),
         impact_distribution |->
            IF rows = {} THEN EmptyDict
            ELSE PositiveOnly(Buckets(t, rows, Get(impact_key)))]

ComputeAggregates ==
    /\ callee = "compute_aggregates" /\ pc = "start"
    /\ \E key \in DetectImpactKeys(cols, articles) :
          ret' = Some(compute_aggregates(articles, key))
    /\ pc' = "returned"
    /\ UNCHANGED <<others, aggregates, prompt, cols, articles, psycopg2, faulty, callee, k, state, state_in, conn, results,
                   impact_col, queries>>

\* A direct call of _detect_impact_column(cur) on an open cursor; the first
\* query is outside any try, so its failure leaves the function by raising.
DetectImpactColumn ==
    /\ callee = "_detect_impact_column" /\ pc = "start"
    /\ IF "columns" \in faulty
         THEN /\ pc' = "raised"
              /\ queries' = Append(queries, "columns")
              /\ UNCHANGED ret
         ELSE \E order \in DynamicOrders(SqlColumns(cols)) :
              /\ ret' = Some(DetectFrom(Candidates(cols, order), articles, faulty))
              /\ queries' = queries \o DetectQueries(Candidates(cols, order))
              /\ pc' = "returned"
    /\ UNCHANGED <<others, aggregates, prompt, cols, articles, psycopg2, faulty, callee, k, state, state_in, conn, results,
                   impact_col>>

----------------------------------------------------------------------------
(* Initial states: a table, a callee, the queries that fail, the state     *)
(* passed in                                                               *)

Row(month, year, sp, impact) ==
    [month |-> month, year |-> year, sp |-> sp, issue |-> Some("tax"), impact |-> impact]

Tables(rows, max) == UNION {[1..n -> rows] : n \in 0..max}

Subsets(S, max) == {T \in SUBSET S : Cardinality(T) <= max}

\* The queries a run of the callee can issue against a table with columns cs.
QueriesOf(fn, cs) ==
    CASE fn = "aggregate" ->
            {GENERIC_QUERIES[n] : n \in DOMAIN GENERIC_QUERIES}
              \cup {"columns", "avg_impact", "max_impact", "impact_distribution"}
              \cup {CountQuery(c) : c \in ImpactCols(cs)}
      [] fn = "mockup_aggregate" -> {BASE_QUERIES[n] : n \in DOMAIN BASE_QUERIES}
      [] fn = "_detect_impact_column" -> {"columns"} \cup {CountQuery(c) : c \in ImpactCols(cs)}
      [] OTHER -> {}

\* The environment of one run: is the driver importable, and which of the
\* calls to the database raise.  Without a driver or a connection no query
\* is issued, so no further failure is drawn.
Environments(fn, cs, qfail) ==
    IF fn \in {"aggregate", "mockup_aggregate"}
    THEN {[driver |-> TRUE, bad |-> b] : b \in qfail}
           \cup {[driver |-> TRUE, bad |-> {"connect"}], [driver |-> FALSE, bad |-> {}]}
    ELSE {[driver |-> TRUE, bad |-> b] : b \in qfail}

StatesIn == {EmptyDict, [x \in {"errors"} |-> <<"ingest">>]}

\* No embedding run: the variables of generate_embeddings and similar at rest.
EmbedIdle ==
    /\ comments = <<>>
    /\ comments_in = <<>>
    /\ batch_size = 1
    /\ limit = None
    /\ ollama = "ready"
    /\ called = FALSE
    /\ remaining = 0
    /\ updated = 0
    /\ batch = <<>>
    /\ fetched = 0
    /\ article_id = None
    /\ emb_res = None
    /\ query_vec = None

\* No run of the SQL agent.
AgentIdle ==
    /\ steps = <<>>
    /\ user_approval = None
    /\ cancelled = FALSE

\* No call of parse_period.
PeriodIdle == period = None

\* No import: no file, an empty target table.
ImportIdle ==
    /\ csv_file = None
    /\ stored = EmptyDict
    /\ stored_in = EmptyDict
    /\ last_csv = <<>>
    /\ broken = "none"
    /\ db_calls = <<>>
    /\ calls = 0

\* No graph: the function is called on its own.
GraphIdle ==
    /\ graph = "none"
    /\ node = "none"
    /\ started = <<>>
    /\ done = <<>>

OthersIdle == EmbedIdle /\ AgentIdle /\ PeriodIdle /\ ImportIdle /\ GraphIdle

\* No aggregation: an empty articles table, nothing queried, nothing computed.
AggIdle ==
    /\ cols = BaseCols
    /\ articles = <<>>
    /\ psycopg2 = TRUE
    /\ faulty = {}
    /\ k = 1
    /\ conn = "none"
    /\ results = EmptyDict
    /\ impact_col = None
    /\ queries = <<>>
    /\ aggregates = EmptyDict
    /\ prompt = None

InitRun(fn, env, sin) ==
    /\ OthersIdle
    /\ callee = fn
    /\ psycopg2 = env.driver
    /\ faulty = env.bad
    /\ pc = "start"
    /\ k = 1
    /\ state_in = sin
    /\ state = sin
    /\ conn = "none"
    /\ results = EmptyDict
    /\ impact_col = None
    /\ queries = <<>>
    /\ ret = None
    /\ aggregates = EmptyDict
    /\ prompt = None

StatesInOf(fn) == IF fn = "compute_aggregates" THEN {EmptyDict} ELSE StatesIn

Callees == {"aggregate", "mockup_aggregate", "compute_aggregates"}

\* Runs under every set of failing queries, over small tables.
Init ==
    /\ cols \in {BaseCols, BaseCols \cup {"kpmgtotalimpact"},
                 BaseCols \cup {"eytotalimpact", "bdototalimpact"}}
    /\ articles \in Tables({Row(Some("Jan"), Some(2025), Some("Alice"), imp) :
                              imp \in [ImpactCols(cols) -> {None, Some(20)}]}, MaxRows)
    /\ \E fn \in Callees :
          \E env \in Environments(fn, cols, SUBSET QueriesOf(fn, cols)) :
            \E sin \in StatesInOf(fn) : InitRun(fn, env, sin)

\* Direct calls of _detect_impact_column: up to four impact columns, two of
\* the priority list and two found by their suffix (these may hold text),
\* with at most one failing query.
DetectCols == {"kpmgtotalimpact", "eytotalimpact", "bdototalimpact", "gttotalimpact"}

CellsOf(col) == IF col \in Known THEN {None, Some(20)} ELSE {None, Some(20), Text(" ")}

ImpactRows(cs) ==
    {imp \in [ImpactCols(cs) -> {None, Some(20), Text(" ")}] :
        \A c \in ImpactCols(cs) : imp[c] \in CellsOf(c)}

InitDetect ==
    /\ cols \in {BaseCols \cup S : S \in SUBSET DetectCols}
    /\ articles \in Tables({Row(Some("Jan"), Some(2025), Some("Alice"), imp) :
                              imp \in ImpactRows(cols)}, MaxDetectRows)
    /\ \E env \in Environments("_detect_impact_column", cols,
                               Subsets(QueriesOf("_detect_impact_column", cols), 1)) :
          InitRun("_detect_impact_column", env, EmptyDict)

NextDetect == DetectImpactColumn

SpecDetect == InitDetect /\ [][NextDetect]_vars

\* Runs without failures over one impact column holding values on both
\* sides of every bucket boundary (0.5, 1, 2, 3, 6, 9) and nulls.
HistValues == {None, Some(5), Some(10), Some(20), Some(30), Some(60), Some(90)}

InitHist ==
    /\ cols \in {BaseCols \cup {"kpmgtotalimpact"}, BaseCols \cup {"eytotalimpact"}}
    /\ articles \in Tables({Row(Some("Jan"), Some(2025), Some("Alice"), imp) :
                              imp \in [ImpactCols(cols) -> HistValues]}, MaxHistRows)
    /\ \E fn \in Callees :
          InitRun(fn, [driver |-> TRUE, bad |-> {}], EmptyDict)

\* Runs without failures over rows of several months and years, among them
\* two labels the month mapping does not know.
MonthLabels == {Some("Jan"), Some("Feb"), Some("Dec"), Some("Foo"), None}

InitMonthly ==
    /\ cols = BaseCols \cup {"kpmgtotalimpact"}
    /\ articles \in Tables({Row(m, y, Some("Alice"), [c \in ImpactCols(cols) |-> Some(20)]) :
                              m \in MonthLabels, y \in {Some(2024), Some(2025)}}, MaxMonthRows)
    /\ \E fn \in Callees :
          InitRun(fn, [driver |-> TRUE, bad |-> {}], EmptyDict)

\* Runs without failures over rows that differ in their spokesperson (null,
\* empty, two names) and in their impact value (null, 0.5, 2), with and
\* without an impact column, and over the table of the scenario: Alice cited
\* three times, Bob five times.
SpNames == {None, Some(""), Some("Alice"), Some("Bob")}

MetricValues == {None, Some(5), Some(20)}

SpokesExample(cs) ==
    [i \in 1..8 |-> Row(Some("Jan"), Some(2025),
                        IF i \in {1, 4, 6} THEN Some("Alice") ELSE Some("Bob"),
                        [c \in ImpactCols(cs) |-> Some(20)])]

InitMetrics ==
    /\ cols \in {BaseCols, BaseCols \cup {"kpmgtotalimpact"}}
    /\ articles \in Tables({Row(Some("Jan"), Some(2025), sp, imp) :
                              sp \in SpNames, imp \in [ImpactCols(cols) -> MetricValues]},
                           MaxMetricRows)
                      \cup {SpokesExample(cols)}
    /\ \E fn \in Callees :
          InitRun(fn, [driver |-> TRUE, bad |-> {}], EmptyDict)

\* Runs on a state that an earlier invocation has left behind: it may carry
\* the aggregates of that invocation, a table name the mockup rejects and
\* earlier errors.  At most one call to the database fails.
StaleAggregates == [x \in {"total_articles"} |-> 99]

StatesReused ==
    {EmptyDict,
     [x \in {"aggregates"} |-> StaleAggregates],
     Put([x \in {"aggregates"} |-> StaleAggregates], "errors", <<"ingest">>),
     Put([x \in {"aggregates"} |-> StaleAggregates], "table", Some("bad-name")),
     [x \in {"table"} |-> Some("articles_2")]}

InitReuse ==
    /\ cols \in {BaseCols, BaseCols \cup {"kpmgtotalimpact"}}
    /\ articles \in Tables({Row(Some("Jan"), Some(2025), Some("Alice"), imp) :
                              imp \in [ImpactCols(cols) -> {None, Some(20)}]}, MaxReuseRows)
    /\ \E fn \in Callees :
          \E env \in Environments(fn, cols, Subsets(QueriesOf(fn, cols), 1)) :
            \E sin \in (IF fn = "compute_aggregates" THEN {EmptyDict} ELSE StatesReused) :
                InitRun(fn, env, sin)

\* Runs on states that name the table: names of letters, digits and
\* underscores, names with other characters, the empty name and no name.
TableNames == {"articles_2", "Ab_9", "bad-name", "a b", "t;--", "-", ""}

StatesNamed == {EmptyDict} \cup {[x \in {"table"} |-> Some(name)] : name \in TableNames}

InitTable ==
    /\ cols \in {BaseCols, BaseCols \cup {"kpmgtotalimpact"}}
    /\ articles \in Tables({Row(Some("Jan"), Some(2025), Some("Alice"), imp) :
                              imp \in [ImpactCols(cols) -> {None, Some(20)}]}, MaxTableRows)
    /\ \E fn \in Callees :
          \E env \in Environments(fn, cols, Subsets(QueriesOf(fn, cols), 1)) :
            \E sin \in (IF fn = "mockup_aggregate" THEN StatesNamed ELSE {EmptyDict}) :
                InitRun(fn, env, sin)

Next ==
    \/ AggStart \/ AggGeneric \/ AggDetect \/ AggAvg \/ AggMax \/ AggDist \/ AggClose
    \/ MockStart \/ MockQuery \/ MockClose
    \/ ComputeAggregates

Spec == Init /\ [][Next]_vars

SpecHist == InitHist /\ [][Next]_vars

SpecMonthly == InitMonthly /\ [][Next]_vars

SpecMetrics == InitMetrics /\ [][Next]_vars

SpecReuse == InitReuse /\ [][Next]_vars

SpecTable == InitTable /\ [][Next]_vars

----------------------------------------------------------------------------
(* src/pg_summary_agent.py, src/mockup/pg_summary_agent.py : Summariser.run *)

NumberKeys == {"total_articles"}

OptionalKeys == {"avg_impact", "avg_kpmg_impact", "company_impact_field"}

ListKeys == {"monthly_counts"}

\* json.dumps of the value under a key: None is null, an empty dict {} and
\* an empty list [].
JsonText(key, v) ==
    CASE key \in NumberKeys -> ToString(v)
      [] key \in OptionalKeys -> IF v = None THEN "null" ELSE ToString(Get(v))
      [] key \in ListKeys -> IF v = <<>> THEN "[]" ELSE ToString(v)
      [] OTHER -> IF DOMAIN v = {} THEN "{}" ELSE ToString(v)

\* str() of the value under a key, as jinja2 renders {{ aggregates }}.
PyText(key, v) ==
    CASE key \in NumberKeys -> ToString(v)
      [] key \in OptionalKeys -> IF v = None THEN "None" ELSE ToString(Get(v))
      [] key \in ListKeys -> IF v = <<>> THEN "[]" ELSE ToString(v)
      [] OTHER -> IF DOMAIN v = {} THEN "{}" ELSE ToString(v)

\* d.setdefault(key, v)
SetDefault(d, key, v) == IF key \in DOMAIN d THEN d ELSE Put(d, key, v)

\* safe after lines 54-60 of the mockup
Safe(aggs) ==
    SetDefault(SetDefault(SetDefault(SetDefault(SetDefault(SetDefault(aggs,
        "total_articles", 0),
        "avg_kpmg_impact", None),
        "max_impact", EmptyDict),
        "top_spokesperson", EmptyDict),
        "impact_distribution", EmptyDict),
        "monthly_counts", <<>>)

\* src/pg_summary_agent.py lines 47-53: an empty mapping is answered "None"
\* without a call of the chain; otherwise the mapping itself is handed on.
SummariserRun ==
    /\ callee = "Summariser.run" /\ pc = "start"
    /\ prompt' = IF aggregates = EmptyDict THEN None
                  ELSE Some([key \in DOMAIN aggregates |-> PyText(key, aggregates[key])])
    /\ pc' = "returned"
    /\ UNCHANGED <<others, aggregates, cols, articles, psycopg2, faulty, callee, k, state, state_in, conn,
                   results, impact_col, queries, ret>>

\* src/mockup/pg_summary_agent.py lines 53-64: the defaults are filled in and
\* the JSON text of the result is handed on (the doubling of the braces is
\* undone by the template).
MockSummariserRun ==
    /\ callee = "mockup Summariser.run" /\ pc = "start"
    /\ prompt' = Some([key \in DOMAIN Safe(aggregates) |-> JsonText(key, Safe(aggregates)[key])])
    /\ pc' = "returned"
    /\ UNCHANGED <<others, aggregates, cols, articles, psycopg2, faulty, callee, k, state, state_in, conn,
                   results, impact_col, queries, ret>>

\* The keys an aggregates mapping may carry and, per key, two values of the
\* shape the aggregation gives it.
SummaryKeys ==
    {"total_articles", "company_impact_field", "avg_impact", "avg_kpmg_impact", "max_impact",
     "top_spokesperson", "impact_distribution", "monthly_counts"}

AggValue(key, n) ==
    CASE key = "total_articles" -> IF n = 1 THEN 0 ELSE 3
      [] key = "company_impact_field" -> IF n = 1 THEN None ELSE Some("KPMGTotalImpact")
      [] key \in {"avg_impact", "avg_kpmg_impact"} -> IF n = 1 THEN None ELSE Some(Fraction(25, 20))
      [] key = "max_impact" ->
            [articleid |-> n, impact |-> Some(20), issue |-> Some("tax"),
             spokespersonname |-> Some("Alice")]
      [] key = "top_spokesperson" -> [spokespersonname |-> "Alice", article_count |-> n]
      [] key = "impact_distribution" -> IF n = 1 THEN EmptyDict ELSE [b \in {"1_3"} |-> 3]
      [] key = "monthly_counts" ->
            IF n = 1 THEN <<>> ELSE <<[month |-> Some("Jan"), year |-> Some(2025), count |-> 3]>>

InputsOver(K) == {[key \in K |-> AggValue(key, c[key])] : c \in [K -> 1..2]}

SummaryInputs == UNION {InputsOver(K) : K \in SUBSET SummaryKeys}

InitSummary ==
    /\ OthersIdle
    /\ cols = BaseCols
    /\ articles = <<>>
    /\ psycopg2 = TRUE
    /\ faulty = {}
    /\ callee \in {"Summariser.run", "mockup Summariser.run"}
    /\ pc = "start"
    /\ k = 1
    /\ state_in = EmptyDict
    /\ state = EmptyDict
    /\ conn = "none"
    /\ results = EmptyDict
    /\ impact_col = None
    /\ queries = <<>>
    /\ ret = None
    /\ aggregates \in SummaryInputs
    /\ prompt = None

NextSummary == SummariserRun \/ MockSummariserRun

SpecSummary == InitSummary /\ [][NextSummary]_vars

----------------------------------------------------------------------------
(* src/pg_articles_util.py: generate_embeddings and similar                *)
(*                                                                         *)
(* comments is the articles table seen by the two functions: row i has the *)
(* id i, its Comments and its Comments_embedding.  ollama says whether the *)
(* package imports and whether the model is there (ready), can be pulled   *)
(* (pullable) or neither (unavailable).  An answer of the embedding model  *)
(* has a flat list under 'embedding' or a list of lists under 'embeddings'.*)
(* comments_in is the table as the call found it.                          *)
(* emb_res is the answer given for the row just processed, None when the   *)
(* model was not asked or raised.                                          *)

DIM == 384

\* A vector of n components, the i-th being i.
Vector(n) == [i \in 1..n |-> i]

Min(a, b) == IF a <= b THEN a ELSE b

RECURSIVE LStrip(_)
LStrip(str) ==
    IF str # "" /\ SubSeq(str, 1, 1) = " " THEN LStrip(SubSeq(str, 2, Len(str))) ELSE str

RECURSIVE RStrip(_)
RStrip(str) ==
    IF str # "" /\ SubSeq(str, Len(str), Len(str)) = " "
    THEN RStrip(SubSeq(str, 1, Len(str) - 1)) ELSE str

\* comment.strip()
Strip(str) == RStrip(LStrip(str))

\* Mutant of Fit: a short vector is not padded.
Fit_NoPad(vec) ==
    IF Len(vec) > DIM THEN SubSeq(vec, 1, DIM) ELSE vec

\* if len(vec) != DIM: vec[:DIM] if longer, else vec + [0.0] * (DIM - len(vec))
Fit(vec) ==
    IF Len(vec) = DIM THEN vec
    ELSE IF Len(vec) > DIM THEN SubSeq(vec, 1, DIM)
    ELSE vec \o [i \in 1..(DIM - Len(vec)) |-> 0]

\* emb_res.get('embedding') or emb_res.get('embeddings'), then the first
\* element of a list of lists.
VecOf(res) ==
    IF res.embedding # <<>> THEN res.embedding
    ELSE IF res.embeddings # <<>> THEN res.embeddings[1]
    ELSE <<>>

\* The answers of the model: a short and a long flat list, a list holding
\* a list of DIM components, a list holding an empty list.
Responses ==
    {[embedding |-> Vector(n), embeddings |-> <<>>] : n \in {2, DIM + 1}}
        \cup {[embedding |-> <<>>, embeddings |-> <<Vector(n)>>] : n \in {0, DIM}}

\* WHERE Comments IS NOT NULL AND Comments != '' AND Comments_embedding IS NULL
Pending(t) ==
    {i \in DOMAIN t : /\ t[i].Comments # None
                      /\ Get(t[i].Comments) # ""
                      /\ t[i].Comments_embedding = None}

\* The sequences of n distinct elements of S: LIMIT n without ORDER BY.
Orderings(S, n) ==
    {f \in [1..n -> S] : \A i, j \in 1..n : f[i] = f[j] => i = j}

\* Mutant of GenStart: the limit is not looked at.
GenStart_NoLimit ==
    /\ callee = "generate_embeddings" /\ pc = "start"
    /\ LET total == Cardinality(Pending(comments)) IN
         IF ollama = "missing" \/ total = 0
         THEN /\ pc' = "returned" /\ ret' = Some(0)
              /\ UNCHANGED <<called, remaining>>
         ELSE IF ollama = "unavailable"
         THEN /\ called' = TRUE
              /\ pc' = "returned" /\ ret' = Some(0)
              /\ UNCHANGED remaining
         ELSE /\ called' = TRUE
              /\ remaining' = total
              /\ pc' = "select"
              /\ UNCHANGED ret
    /\ updated' = 0
    /\ UNCHANGED <<notEmbed, callee, state, comments, comments_in, batch_size, limit, ollama,
                   batch, fetched, article_id, emb_res, query_vec>>

\* generate_embeddings up to the loop: the import, the count of the pending
\* rows, the check of the model.
GenStart ==
    /\ callee = "generate_embeddings" /\ pc = "start"
    /\ LET total == Cardinality(Pending(comments)) IN
         IF ollama = "missing" \/ total = 0
         THEN /\ pc' = "returned" /\ ret' = Some(0)
              /\ UNCHANGED <<called, remaining>>
         ELSE IF ollama = "unavailable"
         THEN /\ called' = TRUE
              /\ pc' = "returned" /\ ret' = Some(0)
              /\ UNCHANGED remaining
         ELSE /\ called' = TRUE
              /\ remaining' = (IF limit = None THEN total ELSE Min(total, Get(limit)))
              /\ pc' = "select"
              /\ UNCHANGED ret
    /\ updated' = 0
    /\ UNCHANGED <<notEmbed, callee, state, comments, comments_in, batch_size, limit, ollama,
                   batch, fetched, article_id, emb_res, query_vec>>

\* while remaining > 0: the select of the next batch; if not rows: break
GenSelect ==
    /\ callee = "generate_embeddings" /\ pc = "select"
    /\ IF remaining <= 0
       THEN /\ pc' = "returned" /\ ret' = Some(updated)
            /\ UNCHANGED <<batch, fetched>>
       ELSE \E rs \in Orderings(Pending(comments),
                                Min(batch_size, Cardinality(Pending(comments)))) :
              IF rs = <<>>
              THEN /\ pc' = "returned" /\ ret' = Some(updated)
                   /\ UNCHANGED <<batch, fetched>>
              ELSE /\ batch' = rs /\ fetched' = Len(rs)
                   /\ pc' = "row"
                   /\ UNCHANGED ret
    /\ UNCHANGED <<notEmbed, callee, state, comments, comments_in, batch_size, limit, ollama, called,
                   remaining, updated, article_id, emb_res, query_vec>>

\* One pass of the for loop: the next row of the batch is skipped (short
\* comment, a raise of the model or of the update, an empty vector) or its
\* embedding is stored.
GenRow ==
    /\ callee = "generate_embeddings" /\ pc = "row" /\ batch # <<>>
    /\ LET id == Head(batch)
           comment == comments[id].Comments
           skip == /\ batch' = Tail(batch)
                   /\ pc' = (IF Tail(batch) = <<>> THEN "commit" ELSE "row")
                   /\ UNCHANGED <<comments, updated, remaining>> IN
         /\ article_id' = Some(id)
         /\ IF comment = None \/ Len(Strip(Get(comment))) < 5
            THEN skip /\ emb_res' = None /\ UNCHANGED called
            ELSE /\ called' = TRUE
                 /\ \/ emb_res' = None /\ skip
                    \/ \E res \in Responses :
                         /\ emb_res' = Some(res)
                         /\ IF VecOf(res) = <<>> THEN skip
                            ELSE /\ comments' = [comments EXCEPT
                                       ![id].Comments_embedding = Some(Fit(VecOf(res)))]
                                 /\ updated' = updated + 1
                                 /\ remaining' = remaining - 1
                                 /\ batch' = Tail(batch)
                                 /\ pc' = (IF remaining - 1 = 0 \/ Tail(batch) = <<>>
                                           THEN "commit" ELSE "row")
    /\ UNCHANGED <<notEmbed, callee, state, ret, comments_in, batch_size, limit, ollama, fetched,
                   query_vec>>

\* conn.commit(); if len(rows) < batch_size: break
GenCommit ==
    /\ callee = "generate_embeddings" /\ pc = "commit"
    /\ IF fetched < batch_size
       THEN pc' = "returned" /\ ret' = Some(updated)
       ELSE pc' = "select" /\ UNCHANGED ret
    /\ UNCHANGED <<notEmbed, callee, state, comments, comments_in, batch_size, limit, ollama, called,
                   remaining, updated, batch, fetched, article_id, emb_res, query_vec>>

\* The rows that have an embedding, which the similarity query ranks.
Embedded(t) == {i \in DOMAIN t : t[i].Comments_embedding # None}

\* similar(query): the embedding of the query, made DIM long, then the
\* select of the nearest rows.  The call of the model is not in a try.
Similar ==
    /\ callee = "similar" /\ pc = "start"
    /\ IF ollama = "missing"
       THEN /\ pc' = "returned" /\ ret' = Some(<<>>)
            /\ UNCHANGED <<called, emb_res, query_vec>>
       ELSE /\ called' = TRUE
            /\ \/ /\ pc' = "raised"
                  /\ UNCHANGED <<ret, emb_res, query_vec>>
               \/ \E res \in Responses :
                    /\ emb_res' = Some(res)
                    /\ pc' = "returned"
                    /\ IF VecOf(res) = <<>>
                       THEN ret' = Some(<<>>) /\ UNCHANGED query_vec
                       ELSE /\ query_vec' = Some(Fit(VecOf(res)))
                            /\ \E found \in Orderings(Embedded(comments),
                                                      Cardinality(Embedded(comments))) :
                                 ret' = Some(found)
    /\ UNCHANGED <<notEmbed, callee, state, comments, comments_in, batch_size, limit, ollama,
                   remaining, updated, batch, fetched, article_id>>

\* The rows of the table: a comment worth embedding, a comment of two
\* letters, an empty and a missing comment, a row that has its embedding.
CommentRows ==
    {[Comments |-> c, Comments_embedding |-> None] :
        c \in {Some("strong coverage"), Some(" ok "), Some(""), None}}
    \cup {[Comments |-> Some("strong coverage"), Comments_embedding |-> Some(Vector(DIM))]}

InitEmbed ==
    /\ AggIdle
    /\ GraphIdle
    /\ state_in = EmptyDict
    /\ AgentIdle
    /\ PeriodIdle
    /\ ImportIdle
    /\ state = EmptyDict
    /\ ret = None
    /\ pc = "start"
    /\ callee \in {"generate_embeddings", "similar"}
    /\ comments \in UNION {[1..n -> CommentRows] : n \in 0..MaxEmbedRows}
    /\ comments_in = comments
    /\ batch_size \in (IF callee = "similar" THEN {1} ELSE 1..MaxBatch)
    /\ limit \in (IF callee = "similar" THEN {None}
                  ELSE {None} \cup {Some(n) : n \in 0..MaxLimit})
    /\ ollama \in {"missing", "ready", "pullable", "unavailable"}
    /\ called = FALSE
    /\ remaining = 0
    /\ updated = 0
    /\ batch = <<>>
    /\ fetched = 0
    /\ article_id = None
    /\ emb_res = None
    /\ query_vec = None

NextEmbed == GenStart \/ GenSelect \/ GenRow \/ GenCommit \/ Similar

SpecEmbed == InitEmbed /\ [][NextEmbed]_vars

\* A call that can take a step takes one: the interpreter runs the function.
SpecEmbedFair == SpecEmbed /\ WF_vars(NextEmbed)

----------------------------------------------------------------------------
(* src/pg_sql_agent_graph.py: the script with the approval prompt          *)
(*                                                                         *)
(* state is the State of the graph (question, query, result, answer),      *)
(* steps the nodes that have run, user_approval the answer read at the     *)
(* prompt, cancelled whether 'Operation cancelled by user.' was printed.   *)
(* The graph is compiled with interrupt_before=["execute_query"]: the      *)
(* first stream stops after write_query, the second one resumes.           *)

Uppers == "ABCDEFGHIJKLMNOPQRSTUVWXYZ"

Lowers == "abcdefghijklmnopqrstuvwxyz"

\* Mutant of Lower: the answer is compared as typed.
Lower_Identity(str) == str

\* str.lower()
RECURSIVE Lower(_)
Lower(str) ==
    IF str = "" THEN ""
    ELSE LET c == SubSeq(str, 1, 1)
             up == {n \in 1..Len(Uppers) : SubSeq(Uppers, n, n) = c} IN
           (IF up = {} THEN c ELSE LET n == CHOOSE m \in up : TRUE IN SubSeq(Lowers, n, n))
               \o Lower(SubSeq(str, 2, Len(str)))

\* The questions asked, the queries the model writes, the results of the
\* database tool, the answers of the model, what the user types.
Questions == {"How many articles in year 2024?", "Who is cited most?"}

SqlTexts == {"SELECT COUNT(*) FROM articles WHERE year = 2024", "DELETE FROM articles"}

SqlResults == {"[(12,)]", "Error: syntax error"}

AnswerTexts == {"There are 12 articles.", "I do not know."}

Typed == {"yes", "YES", "Yes", "yEs", "no", "y", "", " yes", "yes please", "NO"}

\* The first graph.stream: write_query, then the interrupt before
\* execute_query.  A raise of the node ends the script.
WriteQuery ==
    /\ callee = "pg_sql_agent_graph" /\ pc = "start"
    /\ \/ pc' = "raised" /\ UNCHANGED <<state, steps>>
       \/ \E text \in SqlTexts :
            /\ state' = Put(state, "query", text)
            /\ steps' = Append(steps, "write_query")
            /\ pc' = "prompt"
    /\ UNCHANGED <<notAgent, callee, ret, user_approval, cancelled>>

\* input(...) in its try, then the test of the answer.  A read that raises
\* an Exception counts as "no"; a KeyboardInterrupt is not caught.
AskApproval ==
    /\ callee = "pg_sql_agent_graph" /\ pc = "prompt"
    /\ \/ pc' = "raised" /\ UNCHANGED <<user_approval, cancelled>>
       \/ \E typed \in Typed \cup {"no"} :
            /\ user_approval' = Some(typed)
            /\ IF Lower(typed) = "yes"
               THEN pc' = "execute_query" /\ UNCHANGED cancelled
               ELSE pc' = "returned" /\ cancelled' = TRUE
    /\ UNCHANGED <<notAgent, callee, state, ret, steps>>

\* The second graph.stream resumes with execute_query.
ExecuteQuery ==
    /\ callee = "pg_sql_agent_graph" /\ pc = "execute_query"
    /\ \/ pc' = "raised" /\ UNCHANGED <<state, steps>>
       \/ \E res \in SqlResults :
            /\ state' = Put(state, "result", res)
            /\ steps' = Append(steps, "execute_query")
            /\ pc' = "generate_answer"
    /\ UNCHANGED <<notAgent, callee, ret, user_approval, cancelled>>

GenerateAnswer ==
    /\ callee = "pg_sql_agent_graph" /\ pc = "generate_answer"
    /\ \/ pc' = "raised" /\ UNCHANGED <<state, steps>>
       \/ \E text \in AnswerTexts :
            /\ state' = Put(state, "answer", text)
            /\ steps' = Append(steps, "generate_answer")
            /\ pc' = "returned"
    /\ UNCHANGED <<notAgent, callee, ret, user_approval, cancelled>>

InitAgent ==
    /\ AggIdle
    /\ GraphIdle
    /\ state_in = EmptyDict
    /\ EmbedIdle
    /\ AgentIdle
    /\ PeriodIdle
    /\ ImportIdle
    /\ callee = "pg_sql_agent_graph"
    /\ pc = "start"
    /\ ret = None
    /\ state \in {[x \in {"question"} |-> text] : text \in Questions}

NextAgent == WriteQuery \/ AskApproval \/ ExecuteQuery \/ GenerateAnswer

SpecAgent == InitAgent /\ [][NextAgent]_vars

----------------------------------------------------------------------------
(* src/pg_graph.py: parse_period                                           *)
(*                                                                         *)
(* A date is the triple <<year, month, day>>.  Whatever raises inside the  *)
(* try of parse_period (int, the unpacking of the split, date, strptime)   *)
(* makes it return (None, None): NoDates.                                  *)

NoDates == <<None, None>>

DigitChars == "0123456789"

IsDigit(c) == \E n \in 1..Len(DigitChars) : SubSeq(DigitChars, n, n) = c

DigitValue(c) == (CHOOSE n \in 1..Len(DigitChars) : SubSeq(DigitChars, n, n) = c) - 1

AllDigits(str) == str # "" /\ \A n \in 1..Len(str) : IsDigit(SubSeq(str, n, n))

RECURSIVE Number(_)
Number(str) ==
    IF str = "" THEN 0
    ELSE 10 * Number(SubSeq(str, 1, Len(str) - 1)) + DigitValue(SubSeq(str, Len(str), Len(str)))

\* int(text) succeeds: digits, after an optional sign.
IsInt(str) ==
    \/ AllDigits(str)
    \/ Len(str) >= 2 /\ SubSeq(str, 1, 1) \in {"-", "+"} /\ AllDigits(SubSeq(str, 2, Len(str)))

\* int(text)
ParseInt(str) ==
    IF SubSeq(str, 1, 1) = "-" THEN 0 - Number(SubSeq(str, 2, Len(str)))
    ELSE IF SubSeq(str, 1, 1) = "+" THEN Number(SubSeq(str, 2, Len(str)))
    ELSE Number(str)

\* str.upper()
RECURSIVE Upper(_)
Upper(str) ==
    IF str = "" THEN ""
    ELSE LET c == SubSeq(str, 1, 1)
             low == {n \in 1..Len(Lowers) : SubSeq(Lowers, n, n) = c} IN
           (IF low = {} THEN c ELSE LET n == CHOOSE m \in low : TRUE IN SubSeq(Uppers, n, n))
               \o Upper(SubSeq(str, 2, Len(str)))

\* The positions at which sep begins in str.
Occurrences(str, sep) ==
    {n \in 1..(Len(str) - Len(sep) + 1) : SubSeq(str, n, n + Len(sep) - 1) = sep}

\* sep in str
Contains(str, sep) == Occurrences(str, sep) # {}

\* str.split(sep)
RECURSIVE Split(_, _)
Split(str, sep) ==
    IF ~Contains(str, sep) THEN <<str>>
    ELSE LET n == CHOOSE m \in Occurrences(str, sep) :
                      \A o \in Occurrences(str, sep) : m <= o IN
           <<SubSeq(str, 1, n - 1)>> \o Split(SubSeq(str, n + Len(sep), Len(str)), sep)

IsLeap(y) == (y % 4 = 0 /\ y % 100 # 0) \/ y % 400 = 0

DaysInMonth(y, m) ==
    IF m = 2 THEN (IF IsLeap(y) THEN 29 ELSE 28)
    ELSE IF m \in {4, 6, 9, 11} THEN 30 ELSE 31

\* date(y, m, d) does not raise.
ValidDate(y, m, d) ==
    /\ y >= 1 /\ y <= 9999
    /\ m >= 1 /\ m <= 12
    /\ d >= 1 /\ d <= DaysInMonth(y, m)

\* date - timedelta(days=1)
DayBefore(d) ==
    IF d[3] > 1 THEN <<d[1], d[2], d[3] - 1>>
    ELSE IF d[2] > 1 THEN <<d[1], d[2] - 1, DaysInMonth(d[1], d[2] - 1)>>
    ELSE <<d[1] - 1, 12, 31>>

\* Mutant of MonthEnd: no case for December.
MonthEnd_NoDecember(y, m) ==
    IF ValidDate(y, m + 1, 1) THEN Some(DayBefore(<<y, m + 1, 1>>)) ELSE None

\* The last day of month m: date(y, 12, 31) for December, else the day
\* before date(y, m + 1, 1); None when the date raises.
MonthEnd(y, m) ==
    IF m = 12 THEN (IF ValidDate(y, 12, 31) THEN Some(<<y, 12, 31>>) ELSE None)
    ELSE IF ValidDate(y, m + 1, 1) THEN Some(DayBefore(<<y, m + 1, 1>>))
    ELSE None

\* The quarter branch: year, q = period.upper().split("-Q") and the dates.
QuarterDates(parts) ==
    IF Len(parts) # 2 THEN NoDates
    ELSE IF ~IsInt(parts[1]) \/ ~IsInt(parts[2]) THEN NoDates
    ELSE LET y == ParseInt(parts[1])
             qi == ParseInt(parts[2])
             start_month == (qi - 1) * 3 + 1
             end_month == start_month + 2 IN
           IF ~ValidDate(y, start_month, 1) THEN NoDates
           ELSE IF MonthEnd(y, end_month) = None THEN NoDates
           ELSE <<Some(<<y, start_month, 1>>), MonthEnd(y, end_month)>>

\* What %m matches at the head of str: 1[0-2], else 0[1-9], else [1-9].
MonthMatch(str) ==
    IF Len(str) >= 2 /\ SubSeq(str, 1, 1) = "1" /\ SubSeq(str, 2, 2) \in {"0", "1", "2"}
    THEN SubSeq(str, 1, 2)
    ELSE IF Len(str) >= 2 /\ SubSeq(str, 1, 1) = "0" /\ IsDigit(SubSeq(str, 2, 2))
            /\ SubSeq(str, 2, 2) # "0"
    THEN SubSeq(str, 1, 2)
    ELSE IF Len(str) >= 1 /\ IsDigit(SubSeq(str, 1, 1)) /\ SubSeq(str, 1, 1) # "0"
    THEN SubSeq(str, 1, 1)
    ELSE ""

\* The monthly branch: datetime.strptime(period, "%Y-%m") and the dates.
MonthDates(str) ==
    IF Len(str) < 6 \/ ~AllDigits(SubSeq(str, 1, 4)) \/ SubSeq(str, 5, 5) # "-" THEN NoDates
    ELSE LET rest == SubSeq(str, 6, Len(str))
             y == Number(SubSeq(str, 1, 4)) IN
           IF MonthMatch(rest) = "" \/ MonthMatch(rest) # rest THEN NoDates
           ELSE LET m == Number(rest) IN
                  IF ~ValidDate(y, m, 1) \/ MonthEnd(y, m) = None THEN NoDates
                  ELSE <<Some(<<y, m, 1>>), MonthEnd(y, m)>>

parse_period(p) ==
    IF p = None \/ Get(p) = "" THEN NoDates
    ELSE IF Contains(Upper(Get(p)), "-Q") THEN QuarterDates(Split(Upper(Get(p)), "-Q"))
    ELSE MonthDates(Get(p))

ParsePeriod ==
    /\ callee = "parse_period" /\ pc = "start"
    /\ ret' = Some(parse_period(period))
    /\ pc' = "returned"
    /\ UNCHANGED <<notPeriod, callee, state, period>>

YearTexts == {"2024", "2025", "1900", "0000", "25"}

MonthTexts == {"00", "01", "02", "03", "04", "05", "06", "07", "08", "09", "10", "11", "12",
               "13", "7", "1x", ""}

QuarterTexts == {"0", "1", "2", "3", "4", "5", "04", "-1", "x", ""}

\* The periods tried: year-month, year-Qn and year-qn texts, and a few that
\* are neither.
Periods ==
    {y \o "-" \o m : y \in YearTexts, m \in MonthTexts}
        \cup {y \o "-Q" \o n : y \in YearTexts, n \in QuarterTexts}
        \cup {y \o "-q" \o n : y \in YearTexts, n \in QuarterTexts}
        \cup {"", "2025", "Q3", "2025-Q1-Q2", "summer", "2025-07-01", "2025/07"}

InitPeriod ==
    /\ AggIdle
    /\ GraphIdle
    /\ state_in = EmptyDict
    /\ EmbedIdle
    /\ AgentIdle
    /\ ImportIdle
    /\ callee = "parse_period"
    /\ pc = "start"
    /\ state = EmptyDict
    /\ ret = None
    /\ period \in {None} \cup {Some(p) : p \in Periods}

NextPeriod == ParsePeriod

SpecPeriod == InitPeriod /\ [][NextPeriod]_vars

----------------------------------------------------------------------------
(* src/pg_articles_util.py: import_csv; src/pg_ingest_node.py and          *)
(* src/mockup/pg_ingest_node.py: ingest_csv                                *)
(*                                                                         *)
(* csv_file is the file at the path: None when there is no file, else its  *)
(* rows.  A row has its ArticleID ("" when the cell is empty), val for its *)
(* other twelve fields, and bad when handling the row raises (a value the  *)
(* table refuses, a year int() refuses).  stored maps the ArticleIDs of    *)
(* the target table to val; stored_in is the table before the call and     *)
(* last_csv the file the call before imported, if it imported one.  broken names the step of the     *)
(* utility that raises in this call, db_calls the steps of the utility the *)
(* call entered.                                                           *)

\* row.get('ArticleID') or f"row_{inserted+1}"
RowId(row, inserted) ==
    IF row.ArticleID # "" THEN row.ArticleID ELSE "row_" \o ToString(inserted + 1)

\* Mutant of ImportRows: a plain insert, the first row of an id is kept.
RECURSIVE ImportRows_KeepFirst(_, _, _)
ImportRows_KeepFirst(rows, tbl, inserted) ==
    IF rows = <<>> THEN [table |-> tbl, inserted |-> inserted]
    ELSE IF Head(rows).bad THEN ImportRows_KeepFirst(Tail(rows), tbl, inserted)
    ELSE ImportRows_KeepFirst(Tail(rows),
             IF RowId(Head(rows), inserted) \in DOMAIN tbl THEN tbl
             ELSE Put(tbl, RowId(Head(rows), inserted), Head(rows).val),
             inserted + 1)

\* The loop of import_csv: each row is upserted in its own try, a row that
\* raises is skipped.
RECURSIVE ImportRows(_, _, _)
ImportRows(rows, tbl, inserted) ==
    IF rows = <<>> THEN [table |-> tbl, inserted |-> inserted]
    ELSE IF Head(rows).bad THEN ImportRows(Tail(rows), tbl, inserted)
    ELSE ImportRows(Tail(rows), Put(tbl, RowId(Head(rows), inserted), Head(rows).val),
                    inserted + 1)

\* The loop of the mockup ingest_csv for a table other than articles: no
\* try around a row, so the first row that raises ends the loop before the
\* commit.
RECURSIVE MockImportRows(_, _, _)
MockImportRows(rows, tbl, inserted) ==
    IF rows = <<>> THEN [table |-> tbl, inserted |-> inserted, raised |-> FALSE]
    ELSE IF Head(rows).bad THEN [table |-> tbl, inserted |-> inserted, raised |-> TRUE]
    ELSE MockImportRows(Tail(rows), Put(tbl, RowId(Head(rows), inserted), Head(rows).val),
                        inserted + 1)

\* import_csv(path): 0 without a file; the connection is opened outside
\* any try.
ImportCsv ==
    /\ callee = "import_csv" /\ pc = "start"
    /\ IF csv_file = None
       THEN /\ pc' = "returned" /\ ret' = Some(0)
            /\ db_calls' = Append(db_calls, "import_csv")
            /\ UNCHANGED stored
       ELSE IF broken = "connect"
       THEN /\ pc' = "raised"
            /\ db_calls' = Append(db_calls, "import_csv")
            /\ UNCHANGED <<stored, ret>>
       ELSE LET out == ImportRows(Get(csv_file), stored, 0) IN
              /\ stored' = out.table
              /\ ret' = Some(out.inserted)
              /\ db_calls' = Append(db_calls, "import_csv")
              /\ pc' = "returned"
    /\ UNCHANGED <<notImport, callee, state, csv_file, stored_in, last_csv, broken, calls>>

\* Mutant of IngestCsv: a failed import is recorded and the result set all the same.
IngestCsv_ResultAnyway ==
    /\ callee = "ingest_csv" /\ pc = "start"
    /\ pc' = "returned"
    /\ LET path == GetOr(state, "csv_path", None) IN
         IF path \in {None, Some("")}
         THEN UNCHANGED <<state, stored, db_calls>>
         ELSE IF broken = "ensure_extension"
         THEN /\ db_calls' = db_calls \o <<"ensure_extension">>
              /\ state' = AppendError(state, "ingest: " \o broken)
              /\ UNCHANGED stored
         ELSE IF broken = "create_table"
         THEN /\ db_calls' = db_calls \o <<"ensure_extension", "create_table">>
              /\ state' = AppendError(state, "ingest: " \o broken)
              /\ UNCHANGED stored
         ELSE IF csv_file # None /\ broken = "connect"
         THEN /\ db_calls' = db_calls \o <<"ensure_extension", "create_table", "import_csv">>
              /\ state' = Put(AppendError(state, "ingest: " \o broken), "import_results",
                              [rows_imported |-> 0, path |-> Get(path)])
              /\ UNCHANGED stored
         ELSE LET out == IF csv_file = None THEN [table |-> stored, inserted |-> 0]
                         ELSE ImportRows(Get(csv_file), stored, 0) IN
                /\ db_calls' = db_calls \o <<"ensure_extension", "create_table", "import_csv">>
                /\ stored' = out.table
                /\ state' = Put(state, "import_results",
                                [rows_imported |-> out.inserted, path |-> Get(path)])
    /\ UNCHANGED <<notImport, callee, ret, csv_file, stored_in, last_csv, broken, calls>>

\* ingest_csv of src/pg_ingest_node.py
IngestCsv ==
    /\ callee = "ingest_csv" /\ pc = "start"
    /\ pc' = "returned"
    /\ LET path == GetOr(state, "csv_path", None) IN
         IF path \in {None, Some("")}
         THEN UNCHANGED <<state, stored, db_calls>>
         ELSE IF broken = "ensure_extension"
         THEN /\ db_calls' = db_calls \o <<"ensure_extension">>
              /\ state' = AppendError(state, "ingest: " \o broken)
              /\ UNCHANGED stored
         ELSE IF broken = "create_table"
         THEN /\ db_calls' = db_calls \o <<"ensure_extension", "create_table">>
              /\ state' = AppendError(state, "ingest: " \o broken)
              /\ UNCHANGED stored
         ELSE IF csv_file # None /\ broken = "connect"
         THEN /\ db_calls' = db_calls \o <<"ensure_extension", "create_table", "import_csv">>
              /\ state' = AppendError(state, "ingest: " \o broken)
              /\ UNCHANGED stored
         ELSE LET out == IF csv_file = None THEN [table |-> stored, inserted |-> 0]
                         ELSE ImportRows(Get(csv_file), stored, 0) IN
                /\ db_calls' = db_calls \o <<"ensure_extension", "create_table", "import_csv">>
                /\ stored' = out.table
                /\ state' = Put(state, "import_results",
                                [rows_imported |-> out.inserted, path |-> Get(path)])
    /\ UNCHANGED <<notImport, callee, ret, csv_file, stored_in, last_csv, broken, calls>>

\* ingest_csv of src/mockup/pg_ingest_node.py: the import of the utility
\* for the table articles, its own loop for any other table.
MockIngestCsv ==
    /\ callee = "mockup_ingest_csv" /\ pc = "start"
    /\ pc' = "returned"
    /\ LET path == GetOr(state, "csv_path", None)
           table == TableName(state) IN
         IF path \in {None, Some("")}
         THEN UNCHANGED <<state, stored, db_calls>>
         ELSE IF broken = "ensure_extension"
         THEN /\ db_calls' = db_calls \o <<"ensure_extension">>
              /\ state' = AppendError(state, "ingest: " \o broken)
              /\ UNCHANGED stored
         ELSE IF broken = "create_table"
         THEN /\ db_calls' = db_calls \o <<"ensure_extension", "create_table">>
              /\ state' = AppendError(state, "ingest: " \o broken)
              /\ UNCHANGED stored
         ELSE IF broken = "connect" /\ (table # "articles" \/ csv_file # None)
         THEN /\ db_calls' = db_calls \o <<"ensure_extension", "create_table", "import_csv">>
              /\ state' = AppendError(state, "ingest: " \o broken)
              /\ UNCHANGED stored
         ELSE IF table = "articles"
         THEN LET out == IF csv_file = None THEN [table |-> stored, inserted |-> 0]
                         ELSE ImportRows(Get(csv_file), stored, 0) IN
                /\ db_calls' = db_calls \o <<"ensure_extension", "create_table", "import_csv">>
                /\ stored' = out.table
                /\ state' = Put(state, "import_results",
                                [rows_imported |-> out.inserted, path |-> Get(path),
                                 table |-> table])
         ELSE /\ db_calls' = db_calls \o <<"ensure_extension", "create_table", "import_csv">>
              /\ IF csv_file = None
                 THEN /\ state' = AppendError(state, "ingest: No such file or directory")
                      /\ UNCHANGED stored
                 ELSE LET out == MockImportRows(Get(csv_file), stored, 0) IN
                        IF out.raised
                        THEN /\ state' = AppendError(state, "ingest: row")
                             /\ UNCHANGED stored
                        ELSE /\ stored' = out.table
                             /\ state' = Put(state, "import_results",
                                     [rows_imported |-> out.inserted, path |-> Get(path),
                                      table |-> table])
    /\ UNCHANGED <<notImport, callee, ret, csv_file, stored_in, last_csv, broken, calls>>

\* The rows of a file: ids a, b and none, two values, and a row that raises.
CsvRows ==
    {[ArticleID |-> id, val |-> v, bad |-> FALSE] : id \in {"a", "b", ""}, v \in {1, 2}}
        \cup {[ArticleID |-> "a", val |-> 1, bad |-> TRUE]}

CsvFiles == {None} \cup {Some(rows) : rows \in UNION {[1..n -> CsvRows] : n \in 0..MaxCsvRows}}

\* The states an ingest is called with: no path, an empty path, a path; for
\* the mockup also the table articles.
IngestStates(fn) ==
    IF fn = "import_csv" THEN {EmptyDict}
    ELSE {EmptyDict} \cup {[x \in {"csv_path"} |-> path] : path \in {Some(""), Some("data.csv")}}
         \cup (IF fn = "mockup_ingest_csv"
               THEN {[x \in {"csv_path", "table"} |->
                         IF x = "table" THEN Some("articles") ELSE Some("data.csv")]}
               ELSE {})

Importers == {"import_csv", "ingest_csv", "mockup_ingest_csv"}

Breaks == {"none", "ensure_extension", "create_table", "connect"}

\* The rows of the files of one row that a later call imports.
SecondRows ==
    {[ArticleID |-> id, val |-> 2, bad |-> FALSE] : id \in {"a", ""}}

\* The same function is called again with the state of the first call, on
\* the same file or on another one, no step being broken.
NextCall ==
    /\ callee \in Importers /\ pc = "returned"
    /\ calls < MaxImports
    /\ calls' = calls + 1
    /\ pc' = "start"
    /\ ret' = None
    /\ db_calls' = <<>>
    /\ stored_in' = stored
    /\ last_csv' = (IF callee = "import_csv" \/ "import_results" \in DOMAIN state
                     THEN <<csv_file>> ELSE <<>>)
    /\ csv_file' \in {csv_file} \cup {Some(<<row>>) : row \in SecondRows}
    /\ state' = state_in
    /\ broken' = "none"
    /\ UNCHANGED <<aggLocals, embedVars, agentVars, periodVars, graphVars, callee, stored>>

InitImport ==
    /\ AggIdle
    /\ GraphIdle
    /\ EmbedIdle
    /\ AgentIdle
    /\ PeriodIdle
    /\ callee \in Importers
    /\ pc = "start"
    /\ ret = None
    /\ state \in IngestStates(callee)
    /\ state_in = state
    /\ csv_file \in CsvFiles
    /\ stored \in {EmptyDict, [x \in {"a"} |-> 9]}
    /\ stored_in = stored
    /\ last_csv = <<>>
    /\ broken \in (IF callee = "import_csv" THEN {"none", "connect"} ELSE Breaks)
    /\ db_calls = <<>>
    /\ calls = 1

NextImport == ImportCsv \/ IngestCsv \/ MockIngestCsv \/ NextCall

SpecImport == InitImport /\ [][NextImport]_vars

----------------------------------------------------------------------------
(* src/pg_graph.py and src/mockup/pg_graph.py: summarise and build_graph   *)
(*                                                                         *)
(* graph is the module whose build_graph() made the workflow, node the     *)
(* node the run is at (finish after the finish point, aborted when a node  *)
(* raised out of invoke), started and done the nodes entered and returned  *)
(* from.  A node runs as the function it was added with: callee and pc are *)
(* those of that function.  The rows the aggregation reads are articles,   *)
(* whatever the ingest stored.                                             *)

\* add_node / set_entry_point / add_edge / set_finish_point
NodesOf(g) ==
    IF g = "pg_graph" THEN <<"ingest_csv", "aggregate", "summarise">>
    ELSE <<"ingest", "aggregate", "summarise">>

\* The function each node was added with.
FunctionOf(g, n) ==
    IF g = "pg_graph"
    THEN (CASE n = "ingest_csv" -> "ingest_csv"
            [] n = "aggregate" -> "aggregate"
            [] n = "summarise" -> "summarise")
    ELSE (CASE n = "ingest" -> "mockup_ingest_csv"
            [] n = "aggregate" -> "mockup_aggregate"
            [] n = "summarise" -> "mockup_summarise")

\* The texts the chain answers with.
SummaryTexts == {"Coverage was steady."}

\* summarise of src/pg_graph.py: Summariser.run answers "None" to an empty
\* mapping and catches what the chain raises, returning None.
Summarise ==
    /\ callee = "summarise" /\ pc = "start"
    /\ LET aggs == GetOr(state, "aggregates", EmptyDict) IN
         IF aggs = EmptyDict
         THEN state' = Put(state, "summary", Some("None"))
         ELSE \/ \E text \in SummaryTexts : state' = Put(state, "summary", Some(text))
              \/ state' = Put(state, "summary", None)
    /\ pc' = "returned"
    /\ UNCHANGED <<notGraph, graphVars, state_in, callee, ret>>

\* summarise of src/mockup/pg_graph.py: Summariser.run lets the chain raise,
\* the node records it.
MockSummarise ==
    /\ callee = "mockup_summarise" /\ pc = "start"
    /\ \/ \E text \in SummaryTexts : state' = Put(state, "summary", Some(text))
       \/ state' = AppendError(state, "summarise: chain")
    /\ pc' = "returned"
    /\ UNCHANGED <<notGraph, graphVars, state_in, callee, ret>>

\* The function of the node has returned: the next node is entered with the
\* state it returned, or the finish point is reached.
GraphAdvance ==
    /\ graph # "none" /\ pc = "returned"
    /\ \E n \in DOMAIN NodesOf(graph) :
          /\ node = NodesOf(graph)[n]
          /\ done' = Append(done, node)
          /\ IF n = Len(NodesOf(graph))
             THEN /\ node' = "finish"
                  /\ UNCHANGED <<callee, pc, state_in, started>>
             ELSE /\ node' = NodesOf(graph)[n + 1]
                  /\ started' = Append(started, NodesOf(graph)[n + 1])
                  /\ callee' = FunctionOf(graph, NodesOf(graph)[n + 1])
                  /\ pc' = "start"
                  /\ state_in' = state
    /\ UNCHANGED <<notGraph, graph, state, ret>>

\* The function of the node has raised: invoke raises, no further node runs.
GraphAbort ==
    /\ graph # "none" /\ pc = "raised"
    /\ node \notin {"finish", "aborted"}
    /\ node' = "aborted"
    /\ UNCHANGED <<notGraph, state_in, graph, started, done, callee, pc, state, ret>>

\* run_pipeline: the initial state carries csv_path (and table in the
\* mockup), the first node is entered.
InitGraph ==
    /\ EmbedIdle /\ AgentIdle /\ PeriodIdle
    /\ graph \in {"pg_graph", "mockup_pg_graph"}
    /\ node = NodesOf(graph)[1]
    /\ started = <<node>>
    /\ done = <<>>
    /\ callee = FunctionOf(graph, node)
    /\ pc = "start"
    /\ ret = None
    /\ state \in {[x \in (IF graph = "pg_graph" THEN {"csv_path", "period"}
                                                ELSE {"csv_path", "table"}) |->
                      IF x = "csv_path" THEN path ELSE None] : path \in {None, Some("data.csv")}}
    /\ state_in = state
    /\ csv_file = Some(<<[ArticleID |-> "a", val |-> 1, bad |-> FALSE]>>)
    /\ stored = EmptyDict
    /\ stored_in = EmptyDict
    /\ last_csv = <<>>
    /\ broken \in {"none", "create_table"}
    /\ db_calls = <<>>
    /\ calls = 1
    /\ cols \in {BaseCols, BaseCols \cup {"kpmgtotalimpact"}}
    /\ articles \in Tables({Row(Some("Jan"), Some(2025), Some("Alice"), imp) :
                              imp \in [ImpactCols(cols) -> {Some(20)}]}, 1)
    /\ \E env \in Environments(FunctionOf(graph, "aggregate"), cols,
                               SUBSET QueriesOf(FunctionOf(graph, "aggregate"), cols)) :
          /\ psycopg2 = env.driver
          /\ faulty = env.bad
    /\ k = 1
    /\ conn = "none"
    /\ results = EmptyDict
    /\ impact_col = None
    /\ queries = <<>>
    /\ aggregates = EmptyDict
    /\ prompt = None

NextGraph ==
    \/ IngestCsv \/ MockIngestCsv
    \/ AggStart \/ AggGeneric \/ AggDetect \/ AggAvg \/ AggMax \/ AggDist \/ AggClose
    \/ MockStart \/ MockQuery \/ MockClose
    \/ Summarise \/ MockSummarise
    \/ GraphAdvance \/ GraphAbort

SpecGraph == InitGraph /\ [][NextGraph]_vars

\* A run that can take a step takes one.
SpecGraphFair == SpecGraph /\ WF_vars(NextGraph)

----------------------------------------------------------------------------
(* Observations of a finished run                                          *)

ErrorsOf(s) == GetOr(s, "errors", <<>>)

\* The diagnostics this run appended to the errors it was given.
NewErrors == SubSeq(ErrorsOf(state), Len(ErrorsOf(state_in)) + 1, Len(ErrorsOf(state)))

Appended(msg) == \E n \in DOMAIN NewErrors : NewErrors[n] = msg

Issued(q) == \E n \in DOMAIN queries : queries[n] = q

\* A run that connected and has returned state['aggregates'].
Finished(fn) == callee = fn /\ pc = "returned" /\ conn = "closed"

Aggs == state["aggregates"]

ImpactQueries == {"avg_impact", "max_impact", "impact_distribution"}

GenericKeys == {GENERIC_QUERIES[n] : n \in DOMAIN GENERIC_QUERIES}

BaseKeys == {BASE_QUERIES[n] : n \in DOMAIN BASE_QUERIES}

\* The key of aggregates a query of the mockup fills.
MockKey(q) ==
    CASE q = "max_impact_row" -> "max_impact"
      [] q = "impact_buckets" -> "impact_distribution"
      [] OTHER -> q

\* The query returned no row, so the code stores nothing for it.
NoRow(q) ==
    CASE q = "top_spokesperson" -> Named(articles) = {}
      [] q = "max_impact" -> impact_col # None /\ NonNull(articles, Get(impact_col)) = {}
      [] q = "max_impact_row" -> articles = <<>>
      [] OTHER -> FALSE

----------------------------------------------------------------------------
(* C1 *)

\* C1 as stated: after a successful connection, for every set of failing
\* queries, every metric whose query does not fail is in the returned
\* aggregates and every one whose query fails has a diagnostic in errors
\* (detection: company_impact_field present / "detect_impact" appended).
C1_AsStated ==
    /\ Finished("aggregate") =>
         /\ \A q \in GenericKeys \cup ImpactQueries :
               /\ q \notin faulty => q \in DOMAIN Aggs
               /\ q \in faulty => Appended(ErrorOf(q))
         /\ "columns" \in faulty => Appended("detect_impact")
    /\ Finished("mockup_aggregate") =>
         \A q \in BaseKeys :
            /\ ~MockQueryFails(q, faulty, cols) => MockKey(q) \in DOMAIN Aggs
            /\ MockQueryFails(q, faulty, cols) => Appended(ErrorOf(q))

\* C1, amended: after a successful connection every generic query and the
\* detection are attempted whatever else failed, and the three impact queries
\* are attempted exactly when detection returned a column; every attempted
\* query that fails leaves its key out and appends its diagnostic, and every
\* attempted query that does not fail puts its metric into the aggregates,
\* unless it is top_spokesperson or max_impact and its query returned no row.
\* In the mockup all six queries are attempted, with the same outcome rule.
C1_FailuresIsolated ==
    /\ Finished("aggregate") =>
         /\ \A q \in GenericKeys \cup {"columns"} : Issued(q)
         /\ \A q \in ImpactQueries : Issued(q) <=> impact_col # None
         /\ impact_col # None <=> ("columns" \notin faulty /\ ImpactCols(cols) # {})
         /\ "columns" \in faulty => Appended("detect_impact")
         /\ impact_col = None => Appended("no impact column detected")
         /\ \A q \in GenericKeys \cup ImpactQueries :
               /\ (Issued(q) /\ q \in faulty) => (Appended(ErrorOf(q)) /\ q \notin DOMAIN Aggs)
               /\ (Issued(q) /\ q \notin faulty) => (q \in DOMAIN Aggs <=> ~NoRow(q))
    /\ Finished("mockup_aggregate") =>
         \A q \in BaseKeys :
            /\ Issued(q)
            /\ MockQueryFails(q, faulty, cols) =>
                  (Appended(ErrorOf(q)) /\ MockKey(q) \notin DOMAIN Aggs)
            /\ ~MockQueryFails(q, faulty, cols) => (MockKey(q) \in DOMAIN Aggs <=> ~NoRow(q))

\* A run in which two queries failed and the metrics after each of them
\* were still computed.
C1_Witness ==
    /\ Finished("aggregate")
    /\ faulty = {"top_spokesperson", "avg_impact"}
    /\ Appended(ErrorOf("top_spokesperson")) /\ Appended(ErrorOf("avg_impact"))
    /\ {"total_articles", "monthly_counts", "max_impact", "impact_distribution"} \subseteq DOMAIN Aggs

----------------------------------------------------------------------------
(* C2 *)

\* The diagnostics that account for a missing metric key.
ErrorsFor(key) ==
    IF key \in ImpactQueries
    THEN {ErrorOf(key), "no impact column detected", "detect_impact"}
    ELSE {ErrorOf(key)}

MockQueryOf(key) ==
    CASE key = "max_impact" -> "max_impact_row"
      [] key = "impact_distribution" -> "impact_buckets"
      [] OTHER -> key

\* C2 as stated: whenever a metric key is absent from the returned
\* aggregates, an error string for that metric was appended during the run,
\* also when top_spokesperson or max_impact is absent for want of a row.
C2_AsStated ==
    /\ Finished("aggregate") =>
         \A key \in GenericKeys \cup ImpactQueries :
            key \notin DOMAIN Aggs => \E e \in ErrorsFor(key) : Appended(e)
    /\ Finished("mockup_aggregate") =>
         \A q \in BaseKeys :
            MockKey(q) \notin DOMAIN Aggs => Appended(ErrorOf(q))

\* C2, amended: a metric key absent from the returned aggregates has an error
\* string appended during the run, except top_spokesperson and max_impact,
\* which are also absent, with nothing recorded, when their query succeeded
\* and returned no row.
C2_AbsenceRecorded ==
    /\ Finished("aggregate") =>
         \A key \in GenericKeys \cup ImpactQueries :
            key \notin DOMAIN Aggs =>
               \/ \E e \in ErrorsFor(key) : Appended(e)
               \/ key \in {"top_spokesperson", "max_impact"}
                    /\ Issued(key) /\ key \notin faulty /\ NoRow(key)
    /\ Finished("mockup_aggregate") =>
         \A q \in BaseKeys :
            MockKey(q) \notin DOMAIN Aggs =>
               \/ Appended(ErrorOf(q))
               \/ q \in {"top_spokesperson", "max_impact_row"}
                    /\ Issued(q) /\ ~MockQueryFails(q, faulty, cols) /\ NoRow(q)

\* Absent metrics in one run: two by recorded failures, one silently because
\* every value of the selected column is null.
C2_Witness ==
    /\ Finished("aggregate")
    /\ faulty = {"total_articles", "impact_distribution"}
    /\ impact_col # None /\ articles # <<>>
    /\ {"total_articles", "impact_distribution", "max_impact"} \cap DOMAIN Aggs = {}
    /\ NewErrors = <<ErrorOf("total_articles"), ErrorOf("impact_distribution")>>

----------------------------------------------------------------------------
(* C5 *)

\* C5: on a non-empty table with no column ending in totalimpact, a run of
\* aggregate() returns company_impact_field and avg_impact as none; when no
\* query of the run fails it appends exactly one diagnostic, and whenever the
\* total_articles query does not fail total_articles is the number of rows.
C5_NoImpactColumn ==
    (Finished("aggregate") /\ ImpactCols(cols) = {} /\ articles # <<>>) =>
        /\ {"company_impact_field", "avg_impact"} \subseteq DOMAIN Aggs
        /\ Aggs["company_impact_field"] = None
        /\ Aggs["avg_impact"] = None
        /\ (\A n \in DOMAIN queries : queries[n] \notin faulty) =>
              NewErrors = <<"no impact column detected">>
        /\ "total_articles" \notin faulty =>
              ("total_articles" \in DOMAIN Aggs /\ Aggs["total_articles"] = Len(articles))

C5_Witness ==
    /\ Finished("aggregate") /\ ImpactCols(cols) = {} /\ Len(articles) = 2
    /\ faulty = {} /\ state_in # EmptyDict
    /\ Aggs["total_articles"] = 2
    /\ Aggs["company_impact_field"] = None
    /\ Len(ErrorsOf(state)) = Len(ErrorsOf(state_in)) + 1

----------------------------------------------------------------------------
(* C6 *)

\* C6: when the column-metadata query of the detection fails, aggregate()
\* appends the detect_impact diagnostic, company_impact_field is none, no
\* count query and no impact query is issued, and each generic metric whose
\* own query does not fail is returned with the value its query gives.
C6_IntrospectionFailure ==
    (Finished("aggregate") /\ "columns" \in faulty) =>
        /\ Appended("detect_impact")
        /\ impact_col = None
        /\ "company_impact_field" \in DOMAIN Aggs /\ Aggs["company_impact_field"] = None
        /\ \A n \in DOMAIN queries : queries[n] \in GenericKeys \cup {"columns"}
        /\ \A q \in GenericKeys : Issued(q) /\ (q \notin faulty /\ ~NoRow(q) => q \in DOMAIN Aggs)
        /\ "total_articles" \notin faulty => Aggs["total_articles"] = SqlTotal(articles)
        /\ "monthly_counts" \notin faulty => Aggs["monthly_counts"] \in SqlMonthlyCounts(articles)
        /\ ("top_spokesperson" \notin faulty /\ Named(articles) # {}) =>
              <<Aggs["top_spokesperson"].spokespersonname, Aggs["top_spokesperson"].article_count>>
                 \in SqlTopSpokesperson(articles)

C6_Witness ==
    /\ Finished("aggregate") /\ faulty = {"columns"}
    /\ ImpactCols(cols) # {} /\ articles # <<>>
    /\ {"total_articles", "top_spokesperson", "monthly_counts"} \subseteq DOMAIN Aggs
    /\ Aggs["company_impact_field"] = None
    /\ ~Issued("avg_impact")

----------------------------------------------------------------------------
(* C3, C4 *)

\* A call of _detect_impact_column that returned.
Detected == callee = "_detect_impact_column" /\ pc = "returned" /\ ret # None

\* The rows of a column that are neither null nor blank.
Populated(c) ==
    {i \in DOMAIN articles :
        articles[i].impact[c] # None /\ articles[i].impact[c] \notin {Text(""), Text(" ")}}

Suffixed == {c \in cols : EndsWith(c, "totalimpact")}

NoCountFailed == \A c \in Suffixed : CountQuery(c) \notin faulty

\* C3: when no count query fails, _detect_impact_column returns a candidate
\* whose count of non-null, non-blank rows is greatest; a column that alone
\* has such rows is returned whatever its priority; among candidates tied on
\* the greatest count a column of the priority list wins over a dynamically
\* found one and the earlier of two listed columns wins.
C3_GreatestCount ==
    (Detected /\ NoCountFailed /\ Suffixed # {}) =>
        /\ Get(ret) # None
        /\ LET sel == Get(Get(ret)) IN
            /\ sel \in Suffixed
            /\ \A c \in Suffixed : Cardinality(Populated(c)) <= Cardinality(Populated(sel))
            /\ \A c \in Suffixed :
                  (Populated(c) # {} /\ \A d \in Suffixed \ {c} : Populated(d) = {}) => sel = c
            /\ \A c \in Suffixed \cap Known :
                  Cardinality(Populated(c)) = Cardinality(Populated(sel)) =>
                     (sel \in Known /\ PriorityIndex(sel) <= PriorityIndex(c))

\* The only populated column is a dynamically found one, behind two columns
\* of the priority list that are empty and one that holds only a blank.
C3_Witness ==
    /\ Detected /\ NoCountFailed
    /\ {"kpmgtotalimpact", "eytotalimpact", "bdototalimpact", "gttotalimpact"} \subseteq cols
    /\ Cardinality(Populated("bdototalimpact")) = 1
    /\ \A c \in Suffixed \ {"bdototalimpact"} : Populated(c) = {}
    /\ \E i \in DOMAIN articles : articles[i].impact["gttotalimpact"] = Text(" ")
    /\ Get(ret) = Some("bdototalimpact")

\* C4: _detect_impact_column returns none exactly when no column of the
\* table ends with totalimpact, and otherwise one of those columns; when
\* every candidate has zero non-null rows it returns the first candidate in
\* priority order (the earliest listed column present, else a found one).
C4_SomeCandidate ==
    Detected =>
        /\ Get(ret) = None <=> Suffixed = {}
        /\ Get(ret) # None => Get(Get(ret)) \in Suffixed
        /\ (Suffixed # {} /\ \A c \in Suffixed : Populated(c) = {}) =>
              \A c \in Suffixed \cap Known :
                 /\ Get(Get(ret)) \in Known
                 /\ PriorityIndex(Get(Get(ret))) <= PriorityIndex(c)

\* A non-empty table all of whose impact cells are null: the first of the
\* candidates is returned.
C4_Witness ==
    /\ Detected /\ Len(articles) = 2
    /\ {"eytotalimpact", "bdototalimpact"} \subseteq cols /\ "kpmgtotalimpact" \notin cols
    /\ \A c \in Suffixed : Populated(c) = {}
    /\ Get(ret) = Some("eytotalimpact")

----------------------------------------------------------------------------
(* C7, C8, C9 *)

\* The half-open intervals [0,1) [1,3) [3,6) [6,inf) of the four buckets.
InInterval(v, b) ==
    CASE b = "0_1" -> 0 <= v /\ v < 1 * Scale
      [] b = "1_3" -> 1 * Scale <= v /\ v < 3 * Scale
      [] b = "3_6" -> 3 * Scale <= v /\ v < 6 * Scale
      [] b = "6_10" -> 6 * Scale <= v

ValuesIn(col, b) ==
    {i \in DOMAIN articles : articles[i].impact[col] # None
                               /\ InInterval(Get(articles[i].impact[col]), b)}

CountIn(dist, b) == IF b \in DOMAIN dist THEN dist[b] ELSE 0

Total(dist) == SumOver(DOMAIN dist, dist)

\* The impact values of the rows, in order, when col is the only impact column.
ImpactsAre(col, vals) ==
    /\ col \in cols
    /\ Len(articles) = Len(vals)
    /\ \A i \in DOMAIN articles : articles[i].impact[col] = vals[i]

\* A histogram of aggregate() or of the mockup was returned.
HasDistribution(fn) == Finished(fn) /\ "impact_distribution" \in DOMAIN Aggs

\* compute_aggregates returned having chosen an impact key.
Computed == callee = "compute_aggregates" /\ pc = "returned" /\ ret # None

ComputedCol == CHOOSE c \in ImpactCols(cols) : Some(Pretty(c)) = Get(ret).company_impact_field

\* C7 as stated: in every result of aggregate() (the mockup included) the
\* counts of impact_distribution sum to the number of rows whose impact value
\* is non-null, and the mapping has no 'null' key.
C7_AsStated ==
    /\ HasDistribution("aggregate") =>
         /\ "null" \notin DOMAIN Aggs["impact_distribution"]
         /\ Total(Aggs["impact_distribution"]) = Cardinality(NonNull(articles, Get(impact_col)))
    /\ HasDistribution("mockup_aggregate") =>
         /\ "null" \notin DOMAIN Aggs["impact_distribution"]
         /\ Total(Aggs["impact_distribution"]) = Cardinality(NonNull(articles, "kpmgtotalimpact"))

\* C7, the part that holds: aggregate() of src/pg_aggregate_node.py.
C7_HoldsInAggregate ==
    HasDistribution("aggregate") =>
        /\ "null" \notin DOMAIN Aggs["impact_distribution"]
        /\ Total(Aggs["impact_distribution"]) = Cardinality(NonNull(articles, Get(impact_col)))

\* C8: in the histogram of aggregate() and in that of compute_aggregates(),
\* the count of each bucket is the number of non-null values in its half-open
\* interval, so that 1, 3 and 6 are counted in 1_3, 3_6 and 6_10, and the
\* four counts add up to the number of non-null values.
C8_HalfOpenBuckets ==
    /\ HasDistribution("aggregate") =>
         /\ \A b \in BucketLabels :
               CountIn(Aggs["impact_distribution"], b) = Cardinality(ValuesIn(Get(impact_col), b))
         /\ SumOver(BucketLabels, [b \in BucketLabels |-> CountIn(Aggs["impact_distribution"], b)])
               = Cardinality(NonNull(articles, Get(impact_col)))
    /\ (Computed /\ Get(ret).company_impact_field # None) =>
         /\ \A b \in BucketLabels :
               CountIn(Get(ret).impact_distribution, b) = Cardinality(ValuesIn(ComputedCol, b))
         /\ SumOver(BucketLabels, [b \in BucketLabels |-> CountIn(Get(ret).impact_distribution, b)])
               = Cardinality(NonNull(articles, ComputedCol))

\* The three boundary values, each counted in its upper bucket.
C8_Witness ==
    /\ HasDistribution("aggregate")
    /\ ImpactsAre("eytotalimpact", <<Some(10), Some(30), Some(60)>>)
    /\ Aggs["impact_distribution"] = [b \in {"1_3", "3_6", "6_10"} |-> 1]

\* The buckets of the four that hold a value of the column.
Occupied(col) == {b \in BucketLabels : ValuesIn(col, b) # {}}

Example == <<Some(5), Some(20), Some(90), None>>

\* C9 as stated: in aggregate() (the mockup included) and in
\* compute_aggregates(), the keys of impact_distribution are exactly the
\* buckets of the four that hold a non-null value; rows 0.5, 2, 9, null give
\* {0_1:1, 1_3:1, 6_10:1}.
C9_AsStated ==
    /\ HasDistribution("aggregate") =>
         /\ DOMAIN Aggs["impact_distribution"] = Occupied(Get(impact_col))
         /\ ImpactsAre(Get(impact_col), Example) =>
               Aggs["impact_distribution"] = [b \in {"0_1", "1_3", "6_10"} |-> 1]
    /\ HasDistribution("mockup_aggregate") =>
         /\ DOMAIN Aggs["impact_distribution"] = Occupied("kpmgtotalimpact")
         /\ ImpactsAre("kpmgtotalimpact", Example) =>
               Aggs["impact_distribution"] = [b \in {"0_1", "1_3", "6_10"} |-> 1]
    /\ (Computed /\ Get(ret).company_impact_field # None) =>
         /\ DOMAIN Get(ret).impact_distribution = Occupied(ComputedCol)
         /\ ImpactsAre(ComputedCol, Example) =>
               Get(ret).impact_distribution = [b \in {"0_1", "1_3", "6_10"} |-> 1]

\* C9, the part that holds: aggregate() of src/pg_aggregate_node.py and
\* compute_aggregates().
C9_HoldsOutsideMockup ==
    /\ HasDistribution("aggregate") =>
         /\ DOMAIN Aggs["impact_distribution"] = Occupied(Get(impact_col))
         /\ ImpactsAre(Get(impact_col), Example) =>
               Aggs["impact_distribution"] = [b \in {"0_1", "1_3", "6_10"} |-> 1]
    /\ (Computed /\ Get(ret).company_impact_field # None) =>
         /\ DOMAIN Get(ret).impact_distribution = Occupied(ComputedCol)
         /\ ImpactsAre(ComputedCol, Example) =>
               Get(ret).impact_distribution = [b \in {"0_1", "1_3", "6_10"} |-> 1]

----------------------------------------------------------------------------
(* C10 *)

CalendarMonths ==
    <<"Jan", "Feb", "Mar", "Apr", "May", "Jun", "Jul", "Aug", "Sep", "Oct", "Nov", "Dec">>

\* Jan = 1 ... Dec = 12, any other label (or none) = 13.
CalendarIndex(month) ==
    IF month # None /\ \E n \in DOMAIN CalendarMonths : CalendarMonths[n] = Get(month)
    THEN CHOOSE n \in DOMAIN CalendarMonths : CalendarMonths[n] = Get(month)
    ELSE 13

\* C10: monthly_counts of aggregate() has one entry per distinct (month,
\* year) of the rows, carrying the number of rows of that group, ordered by
\* year ascending and within a year by calendar-month index ascending, for
\* every order of the rows in the table.
C10_MonthlyOrder ==
    (Finished("aggregate") /\ "monthly_counts" \in DOMAIN Aggs) =>
        LET mc == Aggs["monthly_counts"] IN
        /\ {<<mc[n].month, mc[n].year>> : n \in DOMAIN mc}
              = {<<articles[i].month, articles[i].year>> : i \in DOMAIN articles}
        /\ \A a, b \in DOMAIN mc : (mc[a].month = mc[b].month /\ mc[a].year = mc[b].year) => a = b
        /\ \A n \in DOMAIN mc :
              mc[n].count = Cardinality({i \in DOMAIN articles :
                                articles[i].month = mc[n].month /\ articles[i].year = mc[n].year})
        /\ \A a, b \in DOMAIN mc : a < b =>
              \/ Get(mc[a].year) < Get(mc[b].year)
              \/ /\ mc[a].year = mc[b].year
                 /\ CalendarIndex(mc[a].month) <= CalendarIndex(mc[b].month)

\* Rows inserted in reverse chronological order, with an unknown label
\* first, come out as Dec 2024, Jan 2025, Foo 2025.
C10_Witness ==
    /\ Finished("aggregate") /\ Len(articles) = 3
    /\ <<articles[1].month, articles[1].year>> = <<Some("Foo"), Some(2025)>>
    /\ <<articles[2].month, articles[2].year>> = <<Some("Jan"), Some(2025)>>
    /\ <<articles[3].month, articles[3].year>> = <<Some("Dec"), Some(2024)>>
    /\ "monthly_counts" \in DOMAIN Aggs
    /\ Aggs["monthly_counts"] =
          <<[month |-> Some("Dec"), year |-> Some(2024), count |-> 1],
            [month |-> Some("Jan"), year |-> Some(2025), count |-> 1],
            [month |-> Some("Foo"), year |-> Some(2025), count |-> 1]>>

----------------------------------------------------------------------------
(* C11 *)

\* The non-null, non-empty spokesperson names of the table.
Names ==
    {Get(articles[i].sp) : i \in {j \in DOMAIN articles : articles[j].sp \notin {None, Some("")}}}

Citations(n) == Cardinality({i \in DOMAIN articles : articles[i].sp = Some(n)})

MostCited(rec) ==
    /\ rec.spokespersonname \in Names
    /\ rec.article_count = Citations(rec.spokespersonname)
    /\ \A n \in Names : Citations(n) <= rec.article_count

\* C11: top_spokesperson of aggregate() (the mockup included) and of
\* compute_aggregates() is reported exactly when the table has a non-null,
\* non-empty spokesperson name; it then names one whose citation count is
\* maximal among those names, with article_count that count (Alice 3, Bob 5
\* gives Bob, 5); rows with a null or empty name never contribute.
C11_TopSpokesperson ==
    /\ \A fn \in {"aggregate", "mockup_aggregate"} :
          (Finished(fn) /\ "top_spokesperson" \notin faulty) =>
             /\ "top_spokesperson" \in DOMAIN Aggs <=> Names # {}
             /\ "top_spokesperson" \in DOMAIN Aggs => MostCited(Aggs["top_spokesperson"])
    /\ Computed =>
          /\ Get(ret).top_spokesperson # None <=> Names # {}
          /\ Get(ret).top_spokesperson # None => MostCited(Get(Get(ret).top_spokesperson))
    /\ \A fn \in {"aggregate", "mockup_aggregate"} :
          (Finished(fn) /\ articles = SpokesExample(cols)) =>
             Aggs["top_spokesperson"] = [spokespersonname |-> "Bob", article_count |-> 5]

\* The scenario of the specification: Alice cited 3 times, Bob 5 times.
C11_Witness ==
    /\ Finished("aggregate") /\ articles = SpokesExample(cols)
    /\ Citations("Alice") = 3 /\ Citations("Bob") = 5
    /\ Aggs["top_spokesperson"] = [spokespersonname |-> "Bob", article_count |-> 5]

----------------------------------------------------------------------------
(* C12 *)

\* The record is a row of the table whose value in col is non-null and is
\* the maximum of the non-null values of col.
HoldsMaximum(id, value, col) ==
    /\ value # None
    /\ id \in DOMAIN articles
    /\ articles[id].impact[col] = value
    /\ \A i \in DOMAIN articles :
          articles[i].impact[col] # None => Get(articles[i].impact[col]) <= Get(value)

HasNonNull(col) == \E i \in DOMAIN articles : articles[i].impact[col] # None

\* C12 as stated: in aggregate() and in the mockup, max_impact is present
\* exactly when some row has a non-null value in the selected column, and is
\* then a row holding the maximum of the non-null values; a row with a null
\* value is never reported.
C12_AsStated ==
    /\ (Finished("aggregate") /\ impact_col # None /\ "max_impact" \notin faulty) =>
          /\ "max_impact" \in DOMAIN Aggs <=> HasNonNull(Get(impact_col))
          /\ "max_impact" \in DOMAIN Aggs =>
                HoldsMaximum(Aggs["max_impact"].articleid, Aggs["max_impact"].impact,
                             Get(impact_col))
    /\ (Finished("mockup_aggregate") /\ ~MockQueryFails("max_impact_row", faulty, cols)) =>
          /\ "max_impact" \in DOMAIN Aggs <=> HasNonNull("kpmgtotalimpact")
          /\ "max_impact" \in DOMAIN Aggs =>
                HoldsMaximum(Aggs["max_impact"].articleid, Aggs["max_impact"].kpmgtotalimpact,
                             "kpmgtotalimpact")

\* C12, the part that holds: aggregate() of src/pg_aggregate_node.py.
C12_HoldsInAggregate ==
    (Finished("aggregate") /\ impact_col # None /\ "max_impact" \notin faulty) =>
        /\ "max_impact" \in DOMAIN Aggs <=> HasNonNull(Get(impact_col))
        /\ "max_impact" \in DOMAIN Aggs =>
              HoldsMaximum(Aggs["max_impact"].articleid, Aggs["max_impact"].impact,
                           Get(impact_col))

----------------------------------------------------------------------------
(* C13 *)

NonNullRows(col) == {i \in DOMAIN articles : articles[i].impact[col] # None}

\* avg is the sum of the non-null values of col divided by their number
\* (values are in tenths).
IsMean(avg, col) ==
    /\ NonNullRows(col) # {}
    /\ avg.num * Cardinality(NonNullRows(col)) * Scale
          = avg.den * SumOver(NonNullRows(col),
                              [i \in DOMAIN articles |-> Get(articles[i].impact[col])])

\* C13: when its query does not fail, avg_impact of aggregate() is none
\* exactly when no column was selected or the selected column has no
\* non-null value, and is otherwise the sum of the non-null values of the
\* column divided by their number; the same holds for compute_aggregates().
C13_MeanOfNonNull ==
    /\ (Finished("aggregate")
          /\ (impact_col = None
               \/ ~ImpactQueryFails("avg_impact", faulty, articles, Get(impact_col)))) =>
          /\ "avg_impact" \in DOMAIN Aggs
          /\ Aggs["avg_impact"] = None <=>
                (impact_col = None \/ NonNullRows(Get(impact_col)) = {})
          /\ Aggs["avg_impact"] # None => IsMean(Get(Aggs["avg_impact"]), Get(impact_col))
    /\ Computed =>
          /\ Get(ret).avg_impact = None <=>
                (Get(ret).company_impact_field = None \/ NonNullRows(ComputedCol) = {})
          /\ Get(ret).avg_impact # None => IsMean(Get(Get(ret).avg_impact), ComputedCol)

\* Rows 0.5, null, 2: the average is 2.5 / 2 = 5/4, the null row counted
\* neither in the sum nor in the divisor.
C13_Witness ==
    /\ Finished("aggregate")
    /\ ImpactsAre("kpmgtotalimpact", <<Some(5), None, Some(20)>>)
    /\ Aggs["avg_impact"] = Some([num |-> 5, den |-> 4])

----------------------------------------------------------------------------
(* C14 *)

\* The position of a query in the sequence of queries issued so far.
IssuedAt(q) == {n \in DOMAIN queries : queries[n] = q}

\* The detection of this run has returned the name of a column: its column
\* query was issued and did not fail, and the table has a candidate.
DetectionReturnedColumn ==
    /\ Issued("columns") /\ "columns" \notin faulty
    /\ impact_col # None /\ Get(impact_col) \in cols

\* C14: at every point of a run of aggregate(), an impact query (average,
\* maximum row, distribution) has been issued only if the detection was run
\* before it and returned a column name; a run whose detection returned none
\* or failed issues none of the three and returns neither max_impact nor
\* impact_distribution nor an average over a column (avg_impact is none).
C14_ImpactAfterDetection ==
    callee = "aggregate" =>
        /\ \A q \in ImpactQueries : \A n \in IssuedAt(q) :
              /\ DetectionReturnedColumn
              /\ \E m \in IssuedAt("columns") : m < n
        /\ (pc = "returned" /\ conn = "closed" /\ ~DetectionReturnedColumn) =>
              /\ \A q \in ImpactQueries : ~Issued(q)
              /\ {"max_impact", "impact_distribution"} \cap DOMAIN Aggs = {}
              /\ "avg_impact" \in DOMAIN Aggs /\ Aggs["avg_impact"] = None

\* A run whose detection failed on a table that has an impact column with
\* values: the three impact queries were not issued.
C14_Witness ==
    /\ Finished("aggregate") /\ faulty = {"columns"}
    /\ "kpmgtotalimpact" \in cols /\ Len(articles) = 2
    /\ \A i \in DOMAIN articles : articles[i].impact["kpmgtotalimpact"] # None
    /\ \A q \in ImpactQueries : ~Issued(q)
    /\ "max_impact" \notin DOMAIN Aggs /\ Aggs["avg_impact"] = None

----------------------------------------------------------------------------
(* C15 *)

\* The run went past the driver check, the table-name check and the connect.
Connected ==
    /\ callee \in {"aggregate", "mockup_aggregate"}
    /\ psycopg2 /\ "connect" \notin faulty
    /\ callee = "mockup_aggregate" => ValidTableName(TableName(state_in))
    /\ pc # "start"

\* C15: a run of aggregate() (the mockup included) that has returned or
\* raised holds no open connection: one that acquired a connection has
\* closed it, whichever of its queries failed, and one that did not connect
\* never had one; the connection is open exactly between the connect and
\* the close.
C15_ConnectionReleased ==
    callee \in {"aggregate", "mockup_aggregate"} =>
        /\ pc \in {"returned", "raised"} => conn # "open"
        /\ (Connected /\ pc = "returned") => conn = "closed"
        /\ (Connected /\ pc # "returned") => conn = "open"
        /\ ~Connected => conn = "none"

\* A run in which every metric query failed and the connection was closed.
C15_Witness ==
    /\ Finished("aggregate") /\ impact_col # None
    /\ GenericKeys \cup ImpactQueries \subseteq faulty
    /\ Len(NewErrors) = 6
    /\ conn = "closed"

----------------------------------------------------------------------------
(* C16 *)

NoQueryTwice == \A a, b \in DOMAIN queries : queries[a] = queries[b] => a = b

\* The queries issued so far that raised.
FailedAt(Q) == {n \in DOMAIN queries : queries[n] \in Q /\ queries[n] \in faulty}

\* The entries of the error list that report a failed query (all but the
\* note that no impact column was detected).
FailureEntries == {n \in DOMAIN NewErrors : NewErrors[n] # "no impact column detected"}

CountQueries == {CountQuery(c) : c \in ImpactCols(cols)}

\* C16 as stated: at every point of a connected run of aggregate() no query
\* has been issued twice, and every query that has failed so far, a count
\* query of the detection included, has its own entry in the error list.
C16_AsStated ==
    (callee = "aggregate" /\ conn # "none") =>
        /\ NoQueryTwice
        /\ Cardinality(FailureEntries)
              = Cardinality(FailedAt(GenericKeys \cup ImpactQueries \cup {"columns"} \cup CountQueries))

\* C16, the part that holds: no query is issued twice, and every failed
\* query other than a count query of the detection has its own entry.
C16_HoldsButCountQueries ==
    (callee = "aggregate" /\ conn # "none") =>
        /\ NoQueryTwice
        /\ Cardinality(FailureEntries)
              = Cardinality(FailedAt(GenericKeys \cup ImpactQueries \cup {"columns"}))
        /\ \A n \in FailedAt(GenericKeys \cup ImpactQueries) : Appended(ErrorOf(queries[n]))
        /\ FailedAt({"columns"}) # {} => Appended("detect_impact")

----------------------------------------------------------------------------
(* C17 *)

\* The call has ended with the connection refused.
ConnectFailed(fn) ==
    /\ callee = fn /\ psycopg2 /\ "connect" \in faulty
    /\ pc \in {"returned", "raised"}

\* The caller can tell the failure: the call raised, or it returned a state
\* without aggregates whose error list got a diagnostic.
FailureSignalled ==
    \/ pc = "raised"
    \/ pc = "returned" /\ "aggregates" \notin DOMAIN state /\ NewErrors # <<>>

NoMetricComputed == queries = <<>> /\ results = EmptyDict /\ "aggregates" \notin DOMAIN state

\* C17 as stated: when the connection cannot be established, a run of
\* aggregate() (the mockup included) issues no query, produces no
\* aggregates, appends exactly one diagnostic and signals the failure.
C17_AsStated ==
    \A fn \in {"aggregate", "mockup_aggregate"} :
        ConnectFailed(fn) =>
            /\ NoMetricComputed
            /\ Len(NewErrors) = 1
            /\ FailureSignalled

\* C17, the part that holds: aggregate() of src/pg_aggregate_node.py, whose
\* one diagnostic is the connect error.
C17_HoldsInAggregate ==
    ConnectFailed("aggregate") =>
        /\ NoMetricComputed
        /\ NewErrors = <<"aggregate connect">>
        /\ FailureSignalled

\* What the mockup does instead: it raises, and records nothing.
C17_MockupRaises ==
    ConnectFailed("mockup_aggregate") =>
        /\ NoMetricComputed
        /\ pc = "raised" /\ state = state_in

----------------------------------------------------------------------------
(* C18 *)

\* The error list handed back is the one passed in followed by the
\* diagnostics of this run.
ErrorsExtended ==
    /\ Len(ErrorsOf(state_in)) <= Len(ErrorsOf(state))
    /\ SubSeq(ErrorsOf(state), 1, Len(ErrorsOf(state_in))) = ErrorsOf(state_in)
    /\ "errors" \in DOMAIN state <=> ("errors" \in DOMAIN state_in \/ NewErrors # <<>>)

ReturnedBestEffort ==
    /\ pc = "returned"
    /\ "aggregates" \in DOMAIN state /\ Aggs = results
    /\ ErrorsExtended

\* C18 as stated: once connected, a run of aggregate() (the mockup included)
\* never raises, and returns its best-effort result in state['aggregates'],
\* always with the key company_impact_field.
C18_AsStated ==
    Connected =>
        /\ pc # "raised"
        /\ pc = "returned" => (ReturnedBestEffort /\ "company_impact_field" \in DOMAIN Aggs)

\* C18, amended: once connected, a run never raises whichever queries fail,
\* and returns state['aggregates'] set to the metrics it computed, with its
\* diagnostics appended to the incoming error list; the result of
\* src/pg_aggregate_node.py always has the key company_impact_field, that
\* of the mockup never has it.
C18_NeverRaises ==
    Connected =>
        /\ pc # "raised"
        /\ pc = "returned" =>
              /\ ReturnedBestEffort
              /\ "company_impact_field" \in DOMAIN Aggs <=> callee = "aggregate"

\* A run of the mockup in which all six queries failed: it returned, with
\* empty aggregates and six diagnostics.
C18_Witness ==
    /\ Finished("mockup_aggregate") /\ faulty = BaseKeys
    /\ Aggs = EmptyDict
    /\ Len(NewErrors) = 6

----------------------------------------------------------------------------
(* C19 *)

\* The key is absent from the aggregates given to Summariser.run, or none.
NotReported(key) ==
    \/ key \notin DOMAIN aggregates
    \/ key \in OptionalKeys /\ aggregates[key] = None

\* The data handed to the text generator gives the metric as the number 0.
HandedZero(key) ==
    /\ prompt # None
    /\ key \in DOMAIN Get(prompt)
    /\ Get(prompt)[key] = "0"

Summarised(fn) == callee = fn /\ pc = "returned"

\* C19 as stated: for every aggregates mapping, neither Summariser.run hands
\* the text generator the value 0 for a metric that is absent or none in it.
C19_AsStated ==
    \A fn \in {"Summariser.run", "mockup Summariser.run"} :
        Summarised(fn) => \A key \in SummaryKeys : NotReported(key) => ~HandedZero(key)

\* C19, the part that holds: Summariser.run of src/pg_summary_agent.py hands
\* on exactly the keys it was given, a none value as None.
C19_HoldsInSummariser ==
    Summarised("Summariser.run") =>
        /\ \A key \in SummaryKeys : NotReported(key) => ~HandedZero(key)
        /\ prompt # None => DOMAIN Get(prompt) = DOMAIN aggregates

----------------------------------------------------------------------------
(* C20 *)

\* The aggregates in the state are the results this run assembled and
\* stored before closing.
ComputedInThisRun == conn = "closed" /\ Aggs = results

Returned(fn) == callee = fn /\ pc = "returned"

\* C20 as stated: whatever state aggregate() (the mockup included) is given,
\* and on every path, the aggregates in the state it returns were computed
\* by this run.
C20_AsStated ==
    \A fn \in {"aggregate", "mockup_aggregate"} :
        (Returned(fn) /\ "aggregates" \in DOMAIN state) => ComputedInThisRun

\* C20, the part that holds: a run that connected replaces whatever
\* aggregates the incoming state carried by its own.
C20_HoldsWhenConnected ==
    \A fn \in {"aggregate", "mockup_aggregate"} :
        (Returned(fn) /\ Connected) =>
            /\ "aggregates" \in DOMAIN state
            /\ ComputedInThisRun
            /\ Aggs # StaleAggregates

\* What the early returns do instead: the state keeps the aggregates it
\* came with, next to the new diagnostic.
C20_EarlyReturnKeepsStale ==
    \A fn \in {"aggregate", "mockup_aggregate"} :
        (Returned(fn) /\ ~Connected /\ "aggregates" \in DOMAIN state_in) =>
            /\ Aggs = state_in["aggregates"]
            /\ Len(NewErrors) = 1

----------------------------------------------------------------------------
(* C28 *)

Letters ==
    {"a","b","c","d","e","f","g","h","i","j","k","l","m","n","o","p","q","r","s","t","u",
     "v","w","x","y","z","A","B","C","D","E","F","G","H","I","J","K","L","M","N","O","P",
     "Q","R","S","T","U","V","W","X","Y","Z"}

Digits == {"0","1","2","3","4","5","6","7","8","9"}

\* The name is non-empty and made of letters, digits and underscores only.
IsWord(name) ==
    /\ name # ""
    /\ \A n \in 1..Len(name) : SubSeq(name, n, n) \in Letters \cup Digits \cup {"_"}

\* The table name the run works on: the one in the incoming state, or the
\* default when the state has none or an empty one.
NameUsed ==
    IF "table" \in DOMAIN state_in /\ state_in["table"] \notin {None, Some("")}
    THEN Get(state_in["table"]) ELSE "articles_test"

\* C28: a run of the mockup aggregate() on a name that is not made of
\* letters, digits and underscores only appends 'invalid table name' and
\* returns without a connection, without a query and without aggregates;
\* a run that connects or issues a query works on a name that passed.
C28_TableNameChecked ==
    (callee = "mockup_aggregate" /\ psycopg2) =>
        /\ (~IsWord(NameUsed) /\ pc # "start") =>
              /\ pc = "returned"
              /\ NewErrors = <<"invalid table name">>
              /\ conn = "none" /\ queries = <<>>
              /\ "aggregates" \notin DOMAIN state
        /\ (conn # "none" \/ queries # <<>>) => IsWord(NameUsed)
        /\ (IsWord(NameUsed) /\ pc = "returned" /\ "connect" \notin faulty) =>
              (conn = "closed" /\ "aggregates" \in DOMAIN state)

\* The name bad-name is refused, the database untouched.
C28_Witness ==
    /\ callee = "mockup_aggregate" /\ pc = "returned"
    /\ state_in = [x \in {"table"} |-> Some("bad-name")]
    /\ NewErrors = <<"invalid table name">>
    /\ conn = "none" /\ queries = <<>>

----------------------------------------------------------------------------
(* C21 *)

\* What a vector of any length becomes: its first DIM components, then
\* zeros up to DIM.
Shaped(vec) == [i \in 1..DIM |-> IF i <= Len(vec) THEN vec[i] ELSE 0]

\* C21: every embedding of a row is null or has DIM components, and so has
\* the query vector of similar(); the vector stored for the row just
\* processed, and the query vector, is the answer of the model cut to its
\* first DIM components or filled with zeros; an empty answer stores nothing.
C21_AlwaysDim ==
    /\ \A i \in DOMAIN comments :
          comments[i].Comments_embedding # None =>
              Len(Get(comments[i].Comments_embedding)) = DIM
    /\ query_vec # None => Len(Get(query_vec)) = DIM
    /\ (callee = "generate_embeddings" /\ pc \in {"row", "commit"} /\ emb_res # None) =>
          LET id == Get(article_id) IN
            IF VecOf(Get(emb_res)) = <<>>
            THEN comments[id].Comments_embedding = None
            ELSE comments[id].Comments_embedding = Some(Shaped(VecOf(Get(emb_res))))
    /\ (callee = "similar" /\ pc = "returned" /\ emb_res # None) =>
          IF VecOf(Get(emb_res)) = <<>>
          THEN query_vec = None
          ELSE query_vec = Some(Shaped(VecOf(Get(emb_res))))

\* A vector of two components was stored with zeros behind it.
C21_Witness ==
    /\ callee = "generate_embeddings" /\ pc \in {"row", "commit"}
    /\ emb_res # None
    /\ Len(VecOf(Get(emb_res))) = 2
    /\ Get(comments[Get(article_id)].Comments_embedding)[DIM] = 0

----------------------------------------------------------------------------
(* C25 *)

\* The rows the call has written.
Written == {i \in DOMAIN comments : comments[i] # comments_in[i]}

\* The rows that had a comment and no embedding when the call began.
PendingAtCall ==
    {i \in DOMAIN comments_in :
        /\ comments_in[i].Comments \notin {None, Some("")}
        /\ comments_in[i].Comments_embedding = None}

\* C25: generate_embeddings writes only rows that had no embedding and a
\* non-empty comment, and only their embedding; with a limit it writes at
\* most min(limit, pending rows) of them; it returns the number of rows it
\* wrote; with no pending row it returns 0 and the model was never called.
C25_BoundedWrites ==
    callee = "generate_embeddings" =>
        /\ Written \subseteq PendingAtCall
        /\ \A i \in Written : /\ comments[i].Comments = comments_in[i].Comments
                              /\ comments[i].Comments_embedding # None
        /\ limit # None =>
              /\ Cardinality(Written) <= Get(limit)
              /\ Cardinality(Written) <= Cardinality(PendingAtCall)
        /\ pc = "returned" => ret = Some(Cardinality(Written))
        /\ (pc = "returned" /\ PendingAtCall = {}) => (ret = Some(0) /\ ~called)

\* Two rows were pending, the limit was one: one row written, 1 returned.
C25_Witness ==
    /\ callee = "generate_embeddings" /\ pc = "returned"
    /\ limit = Some(1)
    /\ Cardinality(PendingAtCall) = 2
    /\ Cardinality(Written) = 1
    /\ ret = Some(1)

----------------------------------------------------------------------------
(* C24 *)

\* C24 as stated: every call of generate_embeddings (and of similar) comes
\* to an end, returning or raising.
C24_AsStated == <>(pc \in {"returned", "raised"})

\* The loop has fetched a full batch and stored nothing from it.
NoProgress ==
    /\ callee = "generate_embeddings" /\ pc = "commit"
    /\ fetched = batch_size /\ remaining > 0
    /\ Written = {}

----------------------------------------------------------------------------
(* C26 *)

\* The word yes in every mix of upper and lower case.
YesForms == {"yes", "yeS", "yEs", "yES", "Yes", "YeS", "YEs", "YES"}

\* C26: the nodes of pg_sql_agent_graph run in the order write_query,
\* execute_query, generate_answer; execute_query and generate_answer have
\* run only after write_query and an answer that is yes in some case; after
\* any other answer (a failed read counts as no) they never run and the
\* cancellation is printed; after yes the run is not cancelled.
C26_ApprovalGate ==
    callee = "pg_sql_agent_graph" =>
        /\ \E n \in 0..3 :
              steps = SubSeq(<<"write_query", "execute_query", "generate_answer">>, 1, n)
        /\ (Len(steps) >= 2 \/ pc \in {"execute_query", "generate_answer"}) =>
              /\ user_approval # None
              /\ Get(user_approval) \in YesForms
              /\ "query" \in DOMAIN state
        /\ (user_approval # None /\ Get(user_approval) \notin YesForms) =>
              /\ steps = <<"write_query">>
              /\ pc = "returned" /\ cancelled
        /\ (user_approval # None /\ Get(user_approval) \in YesForms) =>
              /\ ~cancelled
              /\ pc = "returned" => Len(steps) = 3
        /\ user_approval = None => Len(steps) <= 1 /\ ~cancelled

\* The user typed YES and the three nodes ran.
C26_Witness ==
    /\ callee = "pg_sql_agent_graph" /\ pc = "returned"
    /\ user_approval = Some("YES")
    /\ steps = <<"write_query", "execute_query", "generate_answer">>

\* The user typed something else and the run stopped after write_query.
C26_Cancelled ==
    /\ callee = "pg_sql_agent_graph" /\ pc = "returned"
    /\ user_approval = Some("yes please")
    /\ cancelled /\ steps = <<"write_query">>

----------------------------------------------------------------------------
(* C29 *)

\* Years as written and as numbers; months as written.
YearsRead == {<<"2024", 2024>>, <<"2025", 2025>>, <<"1900", 1900>>}

TwoDigits == <<"01", "02", "03", "04", "05", "06", "07", "08", "09", "10", "11", "12">>

\* The calendar: days of each month, February of 2024 having 29.
LastDay(y, m) ==
    IF m = 2 THEN (IF y = 2024 THEN 29 ELSE 28)
    ELSE <<31, 0, 31, 30, 31, 30, 31, 31, 30, 31, 30, 31>>[m]

\* Periods that name no month and no quarter.
InvalidPeriods ==
    {None, Some(""), Some("2025-Q0"), Some("2025-Q5"), Some("2025-q0"), Some("2025-q5"),
     Some("2025-13"), Some("2025-00"), Some("2024-13"), Some("2025-Q"), Some("2025-"),
     Some("2025-Qx"), Some("2025-Q-1"), Some("2025-1x"), Some("2025"), Some("Q3"),
     Some("summer"), Some("2025-Q1-Q2"), Some("2025-07-01"), Some("2025/07"),
     Some("0000-07"), Some("0000-Q1"), Some("25-07"), Some("25-13")}

\* d comes before e or is e.
NotAfter(d, e) ==
    \/ d[1] < e[1]
    \/ d[1] = e[1] /\ d[2] < e[2]
    \/ d[1] = e[1] /\ d[2] = e[2] /\ d[3] <= e[3]

C29_LeapFebruary ==
    /\ callee = "parse_period" /\ pc = "returned"
    /\ period = Some("2024-02")
    /\ ret = Some(<<Some(<<2024, 2, 1>>), Some(<<2024, 2, 29>>)>>)

----------------------------------------------------------------------------
(* C30 *)

\* The rows of a file that do not raise, in the order of the file.
RECURSIVE GoodRows(_)
GoodRows(rows) ==
    IF rows = <<>> THEN <<>>
    ELSE IF Head(rows).bad THEN GoodRows(Tail(rows))
    ELSE <<Head(rows)>> \o GoodRows(Tail(rows))

\* The id under which the n-th good row is stored.
StoredId(good, n) ==
    IF good[n].ArticleID # "" THEN good[n].ArticleID ELSE "row_" \o ToString(n)

\* The table after an upsert of the rows: one row per id, with the values
\* of the last good row of that id, the other rows as before.
Upserted(before, rows) ==
    LET good == GoodRows(rows)
        hits(id) == {n \in DOMAIN good : StoredId(good, n) = id} IN
      [id \in DOMAIN before \cup {StoredId(good, n) : n \in DOMAIN good} |->
          IF hits(id) = {} THEN before[id]
          ELSE good[CHOOSE n \in hits(id) : \A m \in hits(id) : m <= n].val]

\* An import was asked for and no step of the utility was broken.
ImportAsked ==
    /\ callee \in Importers /\ pc = "returned" /\ broken = "none"
    /\ callee = "import_csv" \/ GetOr(state_in, "csv_path", None) \notin {None, Some("")}

\* The count the import gave back, if it gave one.
CountReturned ==
    IF callee = "import_csv" THEN ret
    ELSE IF "import_results" \in DOMAIN state THEN Some(state["import_results"].rows_imported)
    ELSE None

\* What C30 says of one import.
UpsertDone ==
    IF csv_file = None
    THEN CountReturned = Some(0) /\ stored = stored_in
    ELSE /\ stored = Upserted(stored_in, Get(csv_file))
         /\ CountReturned = Some(Len(GoodRows(Get(csv_file))))
         /\ last_csv = <<csv_file>> => stored = stored_in

\* C30 as stated, for import_csv and for the loop of the mockup ingest_csv:
\* after an import the table is the upsert of the good rows of the file, the
\* rows that raise being skipped; the count is the number of good rows, 0
\* without a file; the same file a second time changes nothing.
C30_AsStated == ImportAsked => UpsertDone

\* The same for import_csv of the utility alone, called directly or by an
\* ingest_csv on the table articles.
C30_InUtility ==
    (ImportAsked /\ (callee = "mockup_ingest_csv" => TableName(state_in) = "articles"))
        => UpsertDone

\* The utility imported a file with a row that raises and two rows of one id.
C30_UtilitySkips ==
    /\ callee = "import_csv" /\ pc = "returned"
    /\ csv_file # None /\ Len(Get(csv_file)) = 2
    /\ Get(csv_file)[1].bad /\ ~Get(csv_file)[2].bad
    /\ ret = Some(1)

\* The utility imported the same file of two rows a second time: the table
\* is as the first import left it.
C30_SecondImport ==
    /\ callee = "import_csv" /\ pc = "returned" /\ calls = 2
    /\ csv_file # None /\ Len(Get(csv_file)) = 2
    /\ last_csv = <<csv_file>>
    /\ stored = stored_in /\ stored # EmptyDict

\* The loop of the mockup met a row that raises after a good one: the good
\* row is not in the table and no count is given.
C30_MockStops ==
    /\ callee = "mockup_ingest_csv" /\ pc = "returned" /\ broken = "none"
    /\ csv_file # None /\ Len(Get(csv_file)) = 2
    /\ ~Get(csv_file)[1].bad /\ Get(csv_file)[2].bad
    /\ stored = stored_in /\ stored = EmptyDict
    /\ CountReturned = None
    /\ NewErrors = <<"ingest: row">>

----------------------------------------------------------------------------
(* C27 *)

\* The path the call was given, None when missing.
PathGiven == GetOr(state_in, "csv_path", None)

\* A step of the ingest raises in this call: the broken step of the
\* utility is reached, or the loop of the mockup meets a missing file or a
\* row that raises.
IngestRaises ==
    \/ broken \in {"ensure_extension", "create_table"}
    \/ /\ broken = "connect"
       /\ csv_file # None \/ (callee = "mockup_ingest_csv" /\ TableName(state_in) # "articles")
    \/ /\ callee = "mockup_ingest_csv" /\ TableName(state_in) # "articles"
       /\ csv_file = None \/ \E n \in DOMAIN Get(csv_file) : Get(csv_file)[n].bad

\* C27: ingest_csv always returns; without a path or with an empty one the
\* state is as given and the utility is not entered; with a path the steps
\* entered are ensure_extension, create_table, import_csv in this order;
\* when a step raises exactly one diagnostic 'ingest: ...' is appended and
\* import_results stays unset; otherwise nothing is appended and
\* import_results carries the count of the import.
C27_IngestContract ==
    (callee \in {"ingest_csv", "mockup_ingest_csv"} /\ pc # "start") =>
        /\ pc = "returned"
        /\ PathGiven \in {None, Some("")} =>
              /\ state = state_in
              /\ db_calls = <<>>
              /\ stored = stored_in
        /\ PathGiven \notin {None, Some("")} =>
              /\ \E n \in 1..3 :
                    db_calls = SubSeq(<<"ensure_extension", "create_table", "import_csv">>, 1, n)
              /\ IF IngestRaises
                 THEN /\ Len(NewErrors) = 1
                      /\ SubSeq(NewErrors[1], 1, 8) = "ingest: "
                      /\ "import_results" \notin DOMAIN state
                 ELSE /\ NewErrors = <<>>
                      /\ db_calls = <<"ensure_extension", "create_table", "import_csv">>
                      /\ "import_results" \in DOMAIN state
                      /\ state["import_results"].rows_imported =
                            (IF csv_file = None THEN 0 ELSE Len(GoodRows(Get(csv_file))))
                      /\ state["import_results"].path = Get(PathGiven)
              /\ \A key \in DOMAIN state_in : key # "errors" => state[key] = state_in[key]

\* The table could not be created: one diagnostic, no import_results, the
\* import never entered.
C27_Witness ==
    /\ callee = "ingest_csv" /\ pc = "returned"
    /\ broken = "create_table"
    /\ NewErrors = <<"ingest: create_table">>
    /\ db_calls = <<"ensure_extension", "create_table">>
    /\ "import_results" \notin DOMAIN state

\* The import ran: import_results carries its count.
C27_Imported ==
    /\ callee = "mockup_ingest_csv" /\ pc = "returned"
    /\ "import_results" \in DOMAIN state
    /\ state["import_results"].rows_imported = 2

----------------------------------------------------------------------------
(* C22 *)

IsPrefix(short, long) ==
    Len(short) <= Len(long) /\ SubSeq(long, 1, Len(short)) = short

StartsWith(str, head) ==
    Len(head) <= Len(str) /\ SubSeq(str, 1, Len(head)) = head

\* The place of a diagnostic in the order of the steps of a run of pg_graph.
StepOf(msg) ==
    IF StartsWith(msg, "ingest: ") THEN 1
    ELSE IF msg \in {"psycopg2 not installed", "aggregate connect"} THEN 2
    ELSE IF msg = "aggregate total_articles" THEN 3
    ELSE IF msg = "aggregate top_spokesperson" THEN 4
    ELSE IF msg = "aggregate monthly_counts" THEN 5
    ELSE IF msg = "detect_impact" THEN 6
    ELSE IF msg \in {"aggregate avg_impact", "no impact column detected"} THEN 7
    ELSE IF msg = "aggregate max_impact" THEN 8
    ELSE IF msg = "aggregate impact_distribution" THEN 9
    ELSE IF StartsWith(msg, "summarise: ") THEN 10
    ELSE 0

\* The diagnostics are in the order of the steps, one at most per step.
InStepOrder(errs) ==
    /\ \A n \in DOMAIN errs : StepOf(errs[n]) > 0
    /\ \A n, m \in DOMAIN errs : n < m => StepOf(errs[n]) < StepOf(errs[m])

\* C22: in a run of either graph no step changes the errors list other than
\* by adding to its end; in a run of pg_graph the entries are in the order
\* ingest, connection, total_articles, top_spokesperson, monthly_counts,
\* detection, avg_impact, max_impact, impact_distribution, summarise.
C22_AppendOnly ==
    /\ [][IsPrefix(ErrorsOf(state), ErrorsOf(state'))]_vars
    /\ [](graph = "pg_graph" => InStepOrder(ErrorsOf(state)))

\* A run of pg_graph with three diagnostics: ingest, then two metrics.
C22_Witness ==
    /\ graph = "pg_graph" /\ node = "finish"
    /\ ErrorsOf(state) =
          <<"ingest: create_table", "aggregate total_articles", "aggregate max_impact">>

\* A run of the mockup graph in which summarise added to the diagnostics of
\* the aggregation.
C22_AfterAggregate ==
    /\ graph = "mockup_pg_graph" /\ node = "finish"
    /\ ErrorsOf(state) = <<"aggregate total_articles", "summarise: chain">>

----------------------------------------------------------------------------
(* C23 *)

\* The nodes are entered in the order of the graph, each once, and a node is
\* entered only when the node before it has returned; the function of a
\* node that is not entered yet has done nothing.
InGraphOrder ==
    graph # "none" =>
        /\ IsPrefix(started, NodesOf(graph))
        /\ IsPrefix(done, started)
        /\ Len(started) <= Len(done) + 1
        /\ (conn # "none" \/ queries # <<>> \/ "aggregates" \in DOMAIN state)
              => Len(done) >= 1
        /\ "summary" \in DOMAIN state => Len(done) >= 2
        /\ node = "finish" => done = NodesOf(graph)

\* C23 as stated, for both graphs: the order holds throughout and every run
\* reaches the finish point.
C23_AsStated == []InGraphOrder /\ <>(node = "finish")

\* The same for the graph of src/pg_graph.py alone.
C23_InPgGraph == []InGraphOrder /\ (graph = "pg_graph" => <>(node = "finish"))

\* A run of pg_graph finished although the ingest and the connection failed.
C23_FinishedWithErrors ==
    /\ graph = "pg_graph" /\ node = "finish"
    /\ ErrorsOf(state) = <<"ingest: create_table", "aggregate connect">>
    /\ "summary" \in DOMAIN state

\* A run of the mockup graph ended in aggregate: summarise was never entered.
C23_MockupAborted ==
    /\ graph = "mockup_pg_graph" /\ node = "aborted"
    /\ started = <<"ingest", "aggregate">>
    /\ "summary" \notin DOMAIN state

====
